---- MODULE Spec2Model ----
(***************************************************************************)
(* Model of main_viz.js (src/unnamed/part_000): the author loader, the     *)
(* temporal aggregation cache, the classification queries, the cluster     *)
(* layout, the phantom edges, the Sankey flow aggregation, the group       *)
(* metric and the user-interface handlers that drive them.                 *)
(*                                                                         *)
(* JavaScript values are represented as follows.                           *)
(*   string            a sequence of one-character strings                 *)
(*   number            an integer; a number that may be NaN is a record    *)
(*                     [nan |-> BOOLEAN, v |-> Int]                        *)
(*   object {k: v}     a sequence of pairs <<k, v>> with distinct keys, in *)
(*                     the order Object.entries yields them                *)
(*   object keyed by a number (the cache tables): a function from the set  *)
(*                     of its keys                                         *)
(*   1 - max/sum       the exact fraction [num |-> sum - max, den |-> sum] *)
(***************************************************************************)
EXTENDS Integers, Sequences, FiniteSets, TLC

VARIABLES
    authorsRaw,        \* normalized authors with their _cache (part_000:121-205)
    yearMinAll,        \* part_000:226
    yearMaxAll,        \* part_000:227
    filteredAuthors,   \* part_000:230
    mainMode,          \* part_000:233
    currentYear,       \* part_000:361
    showSankey,        \* part_000:425
    autoplay,          \* part_000:699
    autoplayInterval,  \* part_000:700, TRUE while it refers to an interval
    runningIntervals,  \* the number of d3 intervals that are running
    showPhantoms,      \* part_000:734
    clusterKeys,       \* part_000:748
    clusterCenterMap,  \* part_000:749
    nodes,             \* part_000:761
    phantomData,       \* part_000:863
    phantomLines,      \* the <line> elements of phantomLayer (part_000:874)
    sankeyGraph,       \* the links and nodes drawn in sankeyLayer
    groupMetric,       \* the content of #groupMetric (part_000:28)
    filterInputs,      \* the values of the filter panel's inputs
    lastOp,            \* the handler that ran last
    ranSetYear,        \* whether that handler went through setYear
    q,                 \* the result of the last classification query
    page,              \* "rendered", "noYears" (part_000:221-224) or "unloaded"
    thrown             \* the error a handler raised, "none" if none did

vars == <<authorsRaw, yearMinAll, yearMaxAll, filteredAuthors, mainMode,
          currentYear, showSankey, autoplay, autoplayInterval,
          runningIntervals, showPhantoms, clusterKeys, clusterCenterMap, nodes, phantomData, phantomLines,
          sankeyGraph, groupMetric, filterInputs, lastOp, ranSetYear, q,
          page, thrown>>

uiVars == <<filteredAuthors, mainMode, currentYear, showSankey, autoplay,
            autoplayInterval, runningIntervals, showPhantoms, clusterKeys,
            clusterCenterMap, nodes, phantomData, phantomLines, sankeyGraph, groupMetric,
            filterInputs, lastOp, ranSetYear>>

dataVars == <<authorsRaw, yearMinAll, yearMaxAll>>

pageVars == <<page, thrown>>

----------------------------------------------------------------------------
(* Bounds of the generated inputs *)

MaxYear == 2
MaxCount == 2
MaxEntries == 2
MaxAuthors == 2

----------------------------------------------------------------------------
(* Strings *)

UpperSeq == <<"A","B","C","D","E","F","G","H","I","J","K","L","M",
              "N","O","P","Q","R","S","T","U","V","W","X","Y","Z">>
LowerSeq == <<"a","b","c","d","e","f","g","h","i","j","k","l","m",
              "n","o","p","q","r","s","t","u","v","w","x","y","z">>
DigitSeq == <<"0","1","2","3","4","5","6","7","8","9">>

IndexIn(seq, c) == CHOOSE i \in 1..Len(seq) : seq[i] = c
InSeq(seq, c) == \E i \in 1..Len(seq) : seq[i] = c

Alphabet ==
    {UpperSeq[i] : i \in 1..26} \cup {LowerSeq[i] : i \in 1..26}
    \cup {DigitSeq[i] : i \in 1..10} \cup {" ", "-"}

\* The UTF-16 code units of the ASCII range the data uses.
CodeUnits ==
    [c \in Alphabet |->
        IF InSeq(UpperSeq, c) THEN 64 + IndexIn(UpperSeq, c)
        ELSE IF InSeq(LowerSeq, c) THEN 96 + IndexIn(LowerSeq, c)
        ELSE IF InSeq(DigitSeq, c) THEN 47 + IndexIn(DigitSeq, c)
        ELSE IF c = " " THEN 32
        ELSE 45]

Ord(c) == CodeUnits[c]

\* The lower-case form of each character.
LowerCase ==
    [c \in Alphabet |->
        IF InSeq(UpperSeq, c) THEN LowerSeq[IndexIn(UpperSeq, c)] ELSE c]

\* a < b on JavaScript strings: lexicographic on code units.
RECURSIVE StrLess(_, _)
StrLess(a, b) ==
    IF b = <<>> THEN FALSE
    ELSE IF a = <<>> THEN TRUE
    ELSE IF Ord(a[1]) < Ord(b[1]) THEN TRUE
    ELSE IF Ord(a[1]) > Ord(b[1]) THEN FALSE
    ELSE StrLess(Tail(a), Tail(b))

toLowerCase(s) == [i \in 1..Len(s) |-> LowerCase[s[i]]]

RECURSIVE TrimLeft(_)
TrimLeft(s) == IF s # <<>> /\ s[1] = " " THEN TrimLeft(Tail(s)) ELSE s

RECURSIVE TrimRight(_)
TrimRight(s) ==
    IF s # <<>> /\ s[Len(s)] = " " THEN TrimRight(SubSeq(s, 1, Len(s) - 1)) ELSE s

trim(s) == TrimRight(TrimLeft(s))

\* s.includes(sub)
includes(s, sub) ==
    \E i \in 1..(Len(s) + 1) :
        /\ i + Len(sub) - 1 <= Len(s)
        /\ SubSeq(s, i, i + Len(sub) - 1) = sub

\* s.split(sep) for a non-empty separator: cut at each leftmost match.
RECURSIVE SplitFrom(_, _, _)
SplitFrom(s, sep, cur) ==
    IF s = <<>> THEN <<cur>>
    ELSE IF Len(s) >= Len(sep) /\ SubSeq(s, 1, Len(sep)) = sep
         THEN <<cur>> \o SplitFrom(SubSeq(s, Len(sep) + 1, Len(s)), sep, <<>>)
         ELSE SplitFrom(Tail(s), sep, Append(cur, s[1]))

split(s, sep) == SplitFrom(s, sep, <<>>)

----------------------------------------------------------------------------
(* Numbers *)

NaN == [nan |-> TRUE, v |-> 0]
Num(n) == [nan |-> FALSE, v |-> n]

Digits == {DigitSeq[i] : i \in 1..10}

AllDigits(s) == \A i \in 1..Len(s) : s[i] \in Digits

RECURSIVE DigitsValue(_)
DigitsValue(s) ==
    IF s = <<>> THEN 0
    ELSE 10 * DigitsValue(SubSeq(s, 1, Len(s) - 1)) + (IndexIn(DigitSeq, s[Len(s)]) - 1)

\* Number(str) for the strings of the data and of the filter inputs: white
\* space is trimmed, "" is 0, a run of decimal digits is its value, anything
\* else is NaN.
NumberOfStr(s) ==
    LET t == trim(s) IN
    IF AllDigits(t) THEN Num(DigitsValue(t)) ELSE NaN

\* String(n) for a natural number n.
RECURSIVE StringOfNat(_)
StringOfNat(n) ==
    IF n < 10 THEN <<DigitSeq[n + 1]>>
    ELSE Append(StringOfNat(n \div 10), DigitSeq[(n % 10) + 1])

SetMax(S) == CHOOSE x \in S : \A y \in S : y <= x
SetMin(S) == CHOOSE x \in S : \A y \in S : x <= y

RECURSIVE GCD(_, _)
GCD(a, b) == IF b = 0 THEN a ELSE GCD(b, a % b)

----------------------------------------------------------------------------
(* Objects *)

ObjKeys(o) == {o[i][1] : i \in 1..Len(o)}
ObjHas(o, k) == \E i \in 1..Len(o) : o[i][1] = k
ObjGet(o, k) == o[CHOOSE i \in 1..Len(o) : o[i][1] = k][2]
\* o[k] || d
ObjGetOr(o, k, d) == IF ObjHas(o, k) THEN ObjGet(o, k) ELSE d
\* o[k] = v: an existing key keeps its place, a new key goes last.
ObjSet(o, k, v) ==
    IF ObjHas(o, k)
    THEN [i \in 1..Len(o) |-> IF o[i][1] = k THEN <<k, v>> ELSE o[i]]
    ELSE Append(o, <<k, v>>)
\* Object.values(o)
ObjValues(o) == [i \in 1..Len(o) |-> o[i][2]]

RECURSIVE SeqSum(_)
SeqSum(s) == IF s = <<>> THEN 0 ELSE s[1] + SeqSum(Tail(s))

SeqMax(s) == SetMax({s[i] : i \in 1..Len(s)})

----------------------------------------------------------------------------
(* Loading: the author normalizer and the aggregation cache *)

\* A raw field that may be missing is <<>> (missing) or <<value>>.
OrElse(opt, d) == IF opt = <<>> THEN d ELSE opt[1]

\* The value null where an object {k: v} is expected; no object equals it,
\* since the entries of an object are pairs.
Null == << <<>> >>

\* o || {}
OrEmpty(o) == IF o = Null THEN <<>> ELSE o

\* The outcome of an operation that raised a TypeError instead of returning.
TypeError == << <<"TypeError">> >>

normalizeYearly(obj) ==
    [i \in 1..Len(obj) |-> <<obj[i][1], obj[i][2]>>]

\* Number(a["H-Index"] ?? ... ?? NaN)
NumberOrNaN(opt) == IF opt = <<>> THEN NaN ELSE Num(opt[1])

\* The inner loop of the cache build: out[key] = Number(c || 0).
RECURSIVE CopyCounts(_, _)
CopyCounts(entries, out) ==
    IF entries = <<>> THEN out
    ELSE CopyCounts(Tail(entries), ObjSet(out, entries[1][1], entries[1][2]))

\* for (const [yStr, sfObj] of Object.entries(table)): skip a key that is not
\* a number, else (re)create cache[y] and fill it.
RECURSIVE BuildYearCache(_, _)
BuildYearCache(entries, acc) ==
    IF entries = <<>> THEN acc
    ELSE LET y == NumberOfStr(entries[1][1]) IN
         IF y.nan THEN BuildYearCache(Tail(entries), acc)
         ELSE BuildYearCache(Tail(entries),
                  (y.v :> CopyCounts(OrEmpty(entries[1][2]), <<>>)) @@ acc)

\* sort((u, v) => u - v) of a set of distinct numbers
RECURSIVE SortedYears(_)
SortedYears(S) ==
    IF S = {} THEN <<>>
    ELSE LET m == SetMin(S) IN <<m>> \o SortedYears(S \ {m})

\* running[sf] = (running[sf] || 0) + Number(val || 0), over one year's entries
RECURSIVE AddCounts(_, _)
AddCounts(entries, running) ==
    IF entries = <<>> THEN running
    ELSE AddCounts(Tail(entries),
             ObjSet(running, entries[1][1],
                    ObjGetOr(running, entries[1][1], 0) + entries[1][2]))

\* Cumulative tables whose running totals start again at every year.
RECURSIVE BuildEntireCache_Restart(_, _, _, _)
BuildEntireCache_Restart(yearsSorted, yearCache, running, acc) ==
    IF yearsSorted = <<>> THEN acc
    ELSE LET y == yearsSorted[1]
             r == AddCounts(yearCache[y], <<>>)
         IN BuildEntireCache_Restart(Tail(yearsSorted), yearCache, r, (y :> r) @@ acc)

\* The cumulative tables: a snapshot of the running totals at each year.
RECURSIVE BuildEntireCache(_, _, _, _)
BuildEntireCache(yearsSorted, yearCache, running, acc) ==
    IF yearsSorted = <<>> THEN acc
    ELSE LET y == yearsSorted[1]
             r == AddCounts(yearCache[y], running)
         IN BuildEntireCache(Tail(yearsSorted), yearCache, r, (y :> r) @@ acc)

BuildCache(a) ==
    LET year == BuildYearCache(a.yearly, <<>>)
        entire == BuildEntireCache(SortedYears(DOMAIN year), year, <<>>, <<>>)
        sankeyYear == BuildYearCache(a.yearly_fields, <<>>)
        sankeyEntire ==
            BuildEntireCache(SortedYears(DOMAIN sankeyYear), sankeyYear, <<>>, <<>>)
    IN [year |-> year, entire |-> entire,
        sankeyYear |-> sankeyYear, sankeyEntire |-> sankeyEntire]

\* One normalized author (without its cache) from raw record a at index i.
NormalizeAuthor(a, i) ==
    [id |-> <<"A">> \o StringOfNat(i),
     given_name |-> a.Nome,
     family_name |-> a.Cognome,
     name |-> trim(a.Nome \o <<" ">> \o a.Cognome),
     institution |-> a.Institution,
     hindex |-> NumberOrNaN(a.HIndex),
     i10index |-> NumberOrNaN(a.I10Index),
     works_count |-> NumberOrNaN(a.WorksCount),
     cited_by_count |-> NumberOrNaN(a.CitedByCount),
     yearly |-> OrElse(a.Yearly_Subfields, <<>>),
     yearly_fields |-> normalizeYearly(OrElse(a.Yearly_Fields, <<>>))]

WithCache(a) == [c \in {"_cache"} \cup DOMAIN a |->
                    IF c = "_cache" THEN BuildCache(a) ELSE a[c]]

LoadAuthors(rawArray) ==
    [i \in 1..Len(rawArray) |-> WithCache(NormalizeAuthor(rawArray[i], i))]

\* allYearsSet: every key of every author's yearly table that is a number.
YearsOf(author) ==
    {NumberOfStr(author.yearly[j][1]).v :
        j \in {k \in 1..Len(author.yearly) : ~NumberOfStr(author.yearly[k][1]).nan}}

AllYearsSet(authors) == UNION {YearsOf(authors[i]) : i \in 1..Len(authors)}

----------------------------------------------------------------------------
(* The classification queries *)

\* Variant for the sensitivity of C1: the 'entire' lookup leaves the query
\* year itself out of the prefix.
countsFor_StrictlyBefore(author, year, mode) ==
    IF mode = "year"
    THEN IF year \in DOMAIN author._cache.year
         THEN author._cache.year[year] ELSE <<>>
    ELSE LET years == {y \in DOMAIN author._cache.entire : y < year} IN
         IF years = {} THEN <<>>
         ELSE author._cache.entire[SetMax(years)]

countsFor(author, year, mode) ==
    IF mode = "year"
    THEN IF year \in DOMAIN author._cache.year
         THEN author._cache.year[year] ELSE <<>>
    ELSE LET years == {y \in DOMAIN author._cache.entire : y <= year} IN
         IF years = {} THEN <<>>
         ELSE author._cache.entire[SetMax(years)]

\* for (const [pair, val] of Object.entries(pairs)) agg[pair] = ...:
\* Object.entries(null) raises a TypeError.
EntriesOfPairs(pairs, agg) ==
    IF pairs = Null THEN TypeError ELSE AddCounts(pairs, agg)

\* The 'entire' loop of countsForFields: a key later than the year is
\* skipped (a key that is not a number is never later), the others are
\* summed; an error ends the loop.
RECURSIVE AggFields(_, _, _)
AggFields(entries, year, agg) ==
    IF entries = <<>> \/ agg = TypeError THEN agg
    ELSE LET y == NumberOfStr(entries[1][1]) IN
         IF ~y.nan /\ y.v > year THEN AggFields(Tail(entries), year, agg)
         ELSE AggFields(Tail(entries), year, EntriesOfPairs(entries[1][2], agg))

countsForFields(author, year, mode) ==
    LET yearlyFields == author.yearly_fields IN
    IF mode = "year"
    THEN OrEmpty(ObjGetOr(yearlyFields, StringOfNat(year), <<>>))
    ELSE IF mode = "entire" THEN AggFields(yearlyFields, year, <<>>)
    ELSE <<>>

Frac(n, d) == [num |-> n, den |-> d]
Zero == Frac(0, 1)

\* Object.values(counts).filter(v => v > 0)
PositiveValues(counts) == SelectSeq(ObjValues(counts), LAMBDA v : v > 0)

\* Variant for the sensitivity of C4: the share of the largest count itself,
\* maxVal / sumVal.
OneMinusMaxOverSum_Share(values) ==
    IF values = <<>> THEN Zero
    ELSE Frac(SeqMax(values), SeqSum(values))

\* 1 - maxVal / sumVal over the positive values, 0 when there is none.
OneMinusMaxOverSum(values) ==
    IF values = <<>> THEN Zero
    ELSE Frac(SeqSum(values) - SeqMax(values), SeqSum(values))

interdisciplinarity(author, year, mode) ==
    OneMinusMaxOverSum(PositiveValues(countsFor(author, year, mode)))

\* aggCounts[key] = (aggCounts[key] || 0) + Number(val || 0) over the counts
\* of one author, unless getting the counts raised an error.
AddOrRaise(counts, aggCounts) ==
    IF counts = TypeError THEN TypeError ELSE AddCounts(counts, aggCounts)

\* authors.forEach(a => ...); an error ends the loop.
RECURSIVE AggAuthors(_, _, _, _, _)
AggAuthors(authors, year, mode, fieldType, aggCounts) ==
    IF authors = <<>> \/ aggCounts = TypeError THEN aggCounts
    ELSE AggAuthors(Tail(authors), year, mode, fieldType,
                    AddOrRaise(IF fieldType = "subfield"
                               THEN countsFor(authors[1], year, mode)
                               ELSE countsForFields(authors[1], year, mode),
                               aggCounts))

\* The outcome of a score that was not computed because of a TypeError.
RaisedScore == [num |-> 0, den |-> 0, raised |-> "TypeError"]

\* The score of the aggregated counts, or the error that ended the loop.
ScoreOrRaise(aggCounts) ==
    IF aggCounts = TypeError THEN RaisedScore
    ELSE OneMinusMaxOverSum(PositiveValues(aggCounts))

\* Variant for the sensitivity of C5: the group metric reads the mode of the
\* page instead of the mode it is given.
groupInterdisciplinarity_PageMode(authors, year, mode, fieldType) ==
    OneMinusMaxOverSum(
        PositiveValues(AggAuthors(authors, year, mainMode, fieldType, <<>>)))

\* Variant for the sensitivity of C6: the mean of the authors' own scores.
RECURSIVE SumOfScores(_, _, _)
SumOfScores(authors, year, mode) ==
    IF authors = <<>> THEN Zero
    ELSE LET s == interdisciplinarity(authors[1], year, mode)
             r == SumOfScores(Tail(authors), year, mode)
         IN Frac(s.num * r.den + r.num * s.den, s.den * r.den)

groupInterdisciplinarity_MeanOfScores(authors, year, mode, fieldType) ==
    IF authors = <<>> THEN Zero
    ELSE LET t == SumOfScores(authors, year, mode)
         IN Frac(t.num, t.den * Len(authors))

groupInterdisciplinarity(authors, year, mode, fieldType) ==
    ScoreOrRaise(AggAuthors(authors, year, mode, fieldType, <<>>))

Unknown == <<"U","n","k","n","o","w","n">>

\* Variant for the sensitivity of C2: a tie keeps the entry met first.
RECURSIVE BestOf_NoTieBreak(_, _)
BestOf_NoTieBreak(entries, best) ==
    IF entries = <<>> THEN best
    ELSE LET sf == entries[1][1]
             n == entries[1][2]
         IN IF n > best.cnt
            THEN BestOf_NoTieBreak(Tail(entries), [sf |-> sf, cnt |-> n])
            ELSE BestOf_NoTieBreak(Tail(entries), best)

RECURSIVE BestOf(_, _)
BestOf(entries, best) ==
    IF entries = <<>> THEN best
    ELSE LET sf == entries[1][1]
             n == entries[1][2]
         IN IF n > best.cnt \/ (n = best.cnt /\ StrLess(sf, best.sf))
            THEN BestOf(Tail(entries), [sf |-> sf, cnt |-> n])
            ELSE BestOf(Tail(entries), best)

mainSubfieldFor(author, year, mode) ==
    BestOf(countsFor(author, year, mode), [sf |-> Unknown, cnt |-> 0]).sf

isActiveBy(author, year, mode) ==
    LET c == countsFor(author, year, mode) IN
    \E i \in 1..Len(c) : c[i][2] > 0

----------------------------------------------------------------------------
(* Cluster layout, nodes and phantom edges.  filteredAuthors holds          *)
(* references to the author objects: here, their indices in authorsRaw.     *)

\* Array.prototype.sort() of a set of distinct strings: code-unit order.
RECURSIVE SortedStrings(_)
SortedStrings(S) ==
    IF S = {} THEN <<>>
    ELSE LET m == CHOOSE x \in S : \A y \in S : y = x \/ StrLess(x, y)
         IN <<m>> \o SortedStrings(S \ {m})

EntrySet(o) == {o[j] : j \in 1..Len(o)}

\* A set "present" that also takes the subfields of count zero.
PresentSubfields_WithZeros(filtered, year, mode) ==
    UNION {{e[1] : e \in {x \in EntrySet(countsFor(authorsRaw[filtered[i]], year, mode)) :
                            x[2] >= 0}} :
           i \in 1..Len(filtered)}

\* computeVisibleSubfields' set "present".
PresentSubfields(filtered, year, mode) ==
    UNION {{e[1] : e \in {x \in EntrySet(countsFor(authorsRaw[filtered[i]], year, mode)) :
                            x[2] > 0}} :
           i \in 1..Len(filtered)}

\* A computeVisibleSubfields that reads the per-year counts in either mode.
computeVisibleSubfields_PerYear(filtered, year, mode) ==
    SortedStrings(PresentSubfields(filtered, year, "year"))

computeVisibleSubfields(filtered, year, mode) ==
    SortedStrings(PresentSubfields(filtered, year, mode))

\* The centre of slot i of n: x, y and angle are functions of the fraction
\* i / n of a full turn, kept in lowest terms.
CenterOf(i, n) == Frac(i \div GCD(i, n), n \div GCD(i, n))

\* visibleSubfields.forEach((sf, i) => clusterCenterMap.set(sf, ...))
CentersOf(visibleSubfields) ==
    [i \in 1..Len(visibleSubfields) |->
        <<visibleSubfields[i], CenterOf(i - 1, Len(visibleSubfields))>>]

\* Variant for the sensitivity of C7: no fallback key.
OrUnknown_NoFallback(computed) == computed

\* if (visibleSubfields.length === 0) visibleSubfields.push("Unknown")
OrUnknown(computed) == IF Len(computed) = 0 THEN <<Unknown>> ELSE computed

\* setYear's "update cluster centers" block.
ClusterCenters(filtered, year, mode) ==
    CentersOf(OrUnknown(computeVisibleSubfields(filtered, year, mode)))

\* The middle of the canvas, which is no slot of the circle.
Middle == Frac(0, 0)

\* The map of the earlier variant of the page (js/sankey.js), which computes
\* it in updateClustersAndLabels and always sets the key "Unknown".
updateClustersAndLabels(filtered, year, mode) ==
    ObjSet(CentersOf(OrUnknown(computeVisibleSubfields(filtered, year, mode))),
           Unknown, Middle)

MapKeys(m) == [i \in 1..Len(m) |-> m[i][1]]

\* A node's x and y are kept as pos: "spawned" is the random point near the
\* centre that setYear gives a new node, "settled" a point the force
\* simulation has moved the node to.
NewNode(idx, year, mode) ==
    [id |-> authorsRaw[idx].id,
     author |-> idx,
     subfield |-> mainSubfieldFor(authorsRaw[idx], year, mode),
     active |-> isActiveBy(authorsRaw[idx], year, mode),
     pos |-> "spawned"]

\* A node update that builds every node anew from the filtered authors.
UpdateNodes_Respawn(ns, filtered, year, mode) ==
    [i \in 1..Len(filtered) |-> NewNode(filtered[i], year, mode)]

\* setYear's node update: refresh in place, push the new authors, drop the
\* nodes whose author is no longer filtered.
UpdateNodes(ns, filtered, year, mode) ==
    LET refreshed == [i \in 1..Len(ns) |->
                        [ns[i] EXCEPT
                            !.subfield = mainSubfieldFor(authorsRaw[ns[i].author], year, mode),
                            !.active = isActiveBy(authorsRaw[ns[i].author], year, mode)]]
        existingIds == {ns[i].id : i \in 1..Len(ns)}
        fresh == SelectSeq(filtered, LAMBDA idx : authorsRaw[idx].id \notin existingIds)
        pushed == refreshed \o [i \in 1..Len(fresh) |-> NewNode(fresh[i], year, mode)]
        filteredIds == {authorsRaw[filtered[i]].id : i \in 1..Len(filtered)}
    IN SelectSeq(pushed, LAMBDA n : n.id \in filteredIds)

\* Variant for the sensitivity of C8: no test that the cluster centre exists.
RECURSIVE PhantomsOfNode_Unguarded(_, _, _, _)
PhantomsOfNode_Unguarded(n, entries, main, centers) ==
    IF entries = <<>> THEN <<>>
    ELSE LET sf == entries[1][1]
             cnt == entries[1][2]
             rest == PhantomsOfNode_Unguarded(n, Tail(entries), main, centers)
         IN IF cnt > 0 /\ sf # main
            THEN <<[parent |-> n.id, subfield |-> sf, count |-> cnt,
                    target |-> ObjGetOr(centers, sf, Middle)]>> \o rest
            ELSE rest

\* The inner loop of computePhantomsForYear for one node.
\* An inner loop that does not leave out the node's own dominant subfield.
RECURSIVE PhantomsOfNode_WithMain(_, _, _, _)
PhantomsOfNode_WithMain(n, entries, main, centers) ==
    IF entries = <<>> THEN <<>>
    ELSE LET sf == entries[1][1]
             cnt == entries[1][2]
             rest == PhantomsOfNode_WithMain(n, Tail(entries), main, centers)
         IN IF cnt > 0 /\ ObjHas(centers, sf)
            THEN <<[parent |-> n.id, subfield |-> sf, count |-> cnt,
                    target |-> ObjGet(centers, sf)]>> \o rest
            ELSE rest

RECURSIVE PhantomsOfNode(_, _, _, _)
PhantomsOfNode(n, entries, main, centers) ==
    IF entries = <<>> THEN <<>>
    ELSE LET sf == entries[1][1]
             cnt == entries[1][2]
             rest == PhantomsOfNode(n, Tail(entries), main, centers)
         IN IF cnt > 0 /\ sf # main /\ ObjHas(centers, sf)
            THEN <<[parent |-> n.id, subfield |-> sf, count |-> cnt,
                    target |-> ObjGet(centers, sf)]>> \o rest
            ELSE rest

RECURSIVE computePhantomsForYear(_, _, _, _)
computePhantomsForYear(ns, year, mode, centers) ==
    IF ns = <<>> THEN <<>>
    ELSE LET a == authorsRaw[ns[1].author]
             rest == computePhantomsForYear(Tail(ns), year, mode, centers)
         IN IF ~isActiveBy(a, year, mode) THEN rest
            ELSE PhantomsOfNode(ns[1], countsFor(a, year, mode),
                                mainSubfieldFor(a, year, mode), centers) \o rest

\* updatePhantoms' data join: the lines drawn are the edges, or none when
\* the phantoms are hidden.
JoinedLines(data, show) == IF show THEN data ELSE <<>>

----------------------------------------------------------------------------
(* The Sankey flow aggregation *)

Delimiter == <<"-", "-", "-">>

\* The pairs updateSankey reads for one author from the precomputed tables.
SankeyPairsOf(author, year, mode) ==
    IF mode = "year"
    THEN IF year \in DOMAIN author._cache.sankeyYear
         THEN author._cache.sankeyYear[year] ELSE <<>>
    ELSE LET years == {y \in DOMAIN author._cache.sankeyEntire : y <= year} IN
         IF years = {} THEN <<>>
         ELSE author._cache.sankeyEntire[SetMax(years)]

\* Variant for the sensitivity of C10: a later author's count replaces the
\* total instead of adding to it.
RECURSIVE AddPositive_Overwrite(_, _)
AddPositive_Overwrite(entries, totals) ==
    IF entries = <<>> THEN totals
    ELSE IF entries[1][2] <= 0 THEN AddPositive_Overwrite(Tail(entries), totals)
    ELSE AddPositive_Overwrite(Tail(entries),
             ObjSet(totals, entries[1][1], entries[1][2]))

\* pairTotals.set(pair, (pairTotals.get(pair) || 0) + v), skipping v <= 0
RECURSIVE AddPositive(_, _)
AddPositive(entries, totals) ==
    IF entries = <<>> THEN totals
    ELSE IF entries[1][2] <= 0 THEN AddPositive(Tail(entries), totals)
    ELSE AddPositive(Tail(entries),
             ObjSet(totals, entries[1][1],
                    ObjGetOr(totals, entries[1][1], 0) + entries[1][2]))

RECURSIVE PairTotals(_, _, _, _)
PairTotals(filtered, year, mode, totals) ==
    IF filtered = <<>> THEN totals
    ELSE PairTotals(Tail(filtered), year, mode,
             AddPositive(SankeyPairsOf(authorsRaw[filtered[1]], year, mode), totals))

\* "Build links and nodes": a key with fewer than two parts is skipped.
RECURSIVE BuildLinks(_)
BuildLinks(totals) ==
    IF totals = <<>> THEN <<>>
    ELSE LET parts == split(totals[1][1], Delimiter) IN
         IF Len(parts) < 2 THEN BuildLinks(Tail(totals))
         ELSE <<[source |-> parts[1], target |-> parts[2], value |-> totals[1][2]]>>
              \o BuildLinks(Tail(totals))

\* nodesSet, in insertion order
RECURSIVE NodesOfLinks(_, _)
NodesOfLinks(links, acc) ==
    IF links = <<>> THEN acc
    ELSE LET withSource == IF InSeq(acc, links[1].source) THEN acc
                           ELSE Append(acc, links[1].source)
             withTarget == IF InSeq(withSource, links[1].target) THEN withSource
                           ELSE Append(withSource, links[1].target)
         IN NodesOfLinks(Tail(links), withTarget)

EmptyGraph == [links |-> <<>>, nodes |-> <<>>]

\* An empty link list returns without clearing the layer: what was drawn
\* stays.
GraphOfLinks_KeepDrawn(links) ==
    IF Len(links) = 0 THEN sankeyGraph
    ELSE [links |-> links, nodes |-> NodesOfLinks(links, <<>>)]

\* if (!links.length) clear and return; else the nodes of the links.
GraphOfLinks(links) ==
    IF Len(links) = 0 THEN EmptyGraph
    ELSE [links |-> links, nodes |-> NodesOfLinks(links, <<>>)]

\* An empty aggregation returns without clearing the layer: what was drawn
\* stays.
GraphOfTotals_KeepDrawn(pairTotals) ==
    IF Len(pairTotals) = 0 THEN sankeyGraph
    ELSE GraphOfLinks(BuildLinks(pairTotals))

\* if (!pairTotals.size) clear and return; else build the links.
GraphOfTotals(pairTotals) ==
    IF Len(pairTotals) = 0 THEN EmptyGraph
    ELSE GraphOfLinks(BuildLinks(pairTotals))

\* What updateSankey leaves drawn in sankeyLayer.
updateSankey(filtered, year, mode) ==
    GraphOfTotals(PairTotals(filtered, year, mode, <<>>))

----------------------------------------------------------------------------
(* The group metric display *)

\* (val * 100).toFixed(1), as a number of tenths of a percent
ToFixed1Percent(val) == (2000 * val.num + val.den) \div (2 * val.den)

\* const val = groupInterdisciplinarity(...); groupMetricDiv.html(...): an
\* error raised by the first statement leaves the display as it was.
MetricOrStale(label, val) ==
    IF "raised" \in DOMAIN val THEN groupMetric
    ELSE [label |-> label, tenths |-> ToFixed1Percent(val)]

GroupMetricText(filtered, year, mode, sankey) ==
    LET authors == [i \in 1..Len(filtered) |-> authorsRaw[filtered[i]]] IN
    IF sankey
    THEN MetricOrStale("Outer Interdisciplinarity",
                       groupInterdisciplinarity(authors, year, mode, "external"))
    ELSE MetricOrStale("Inner Interdisciplinarity",
                       groupInterdisciplinarity(authors, year, mode, "subfield"))

----------------------------------------------------------------------------
(* The filter panel *)

EmptyInputs ==
    [nameFilter |-> <<>>, surnameFilter |-> <<>>, instFilter |-> <<>>,
     hindex_op |-> ">=", hindex_val |-> <<>>,
     i10_op |-> ">=", i10_val |-> <<>>,
     works_op |-> ">=", works_val |-> <<>>,
     cited_op |-> ">=", cited_val |-> <<>>]

\* val >= num, val <= num, val === num on numbers that may be NaN
\* A comparison that reads a missing metric as 0.
JsGe_MissingAsZero(a, b) == ~b.nan /\ (IF a.nan THEN 0 ELSE a.v) >= b.v

JsGe(a, b) == ~a.nan /\ ~b.nan /\ a.v >= b.v
JsLe(a, b) == ~a.nan /\ ~b.nan /\ a.v <= b.v
JsEq(a, b) == ~a.nan /\ ~b.nan /\ a.v = b.v

\* The loop over the numeric checks, with its early returns.
RECURSIVE NumericChecks(_)
NumericChecks(checks) ==
    IF checks = <<>> THEN TRUE
    ELSE LET op == checks[1][1]
             val == checks[1][2]
             numStr == checks[1][3]
             num == NumberOfStr(numStr)
         IN IF trim(numStr) = <<>> THEN NumericChecks(Tail(checks))
            ELSE IF op = ">=" /\ ~JsGe(val, num) THEN FALSE
            ELSE IF op = "<=" /\ ~JsLe(val, num) THEN FALSE
            ELSE IF op = "=" /\ ~JsEq(val, num) THEN FALSE
            ELSE NumericChecks(Tail(checks))

\* The predicate applyFilters passes to authorsRaw.filter.
FilterPredicate(a, in) ==
    LET nameSub == toLowerCase(trim(in.nameFilter))
        surnameSub == toLowerCase(trim(in.surnameFilter))
        instSub == toLowerCase(trim(in.instFilter))
    IN IF nameSub # <<>> /\ ~includes(toLowerCase(a.name), nameSub) THEN FALSE
       ELSE IF surnameSub # <<>> /\ ~includes(toLowerCase(a.family_name), surnameSub) THEN FALSE
       ELSE IF instSub # <<>> /\ ~includes(toLowerCase(a.institution), instSub) THEN FALSE
       ELSE NumericChecks(<<
                <<in.hindex_op, a.hindex, trim(in.hindex_val)>>,
                <<in.i10_op, a.i10index, trim(in.i10_val)>>,
                <<in.works_op, a.works_count, trim(in.works_val)>>,
                <<in.cited_op, a.cited_by_count, trim(in.cited_val)>> >>)

\* Variant for the sensitivity of C9: the filter narrows the population
\* already filtered.
FilterAuthors_Compounding(in) ==
    SelectSeq(filteredAuthors, LAMBDA i : FilterPredicate(authorsRaw[i], in))

\* authorsRaw.filter(...)
FilterAuthors(in) ==
    SelectSeq([i \in 1..Len(authorsRaw) |-> i],
              LAMBDA i : FilterPredicate(authorsRaw[i], in))

\* authorsRaw.slice()
AllAuthors == [i \in 1..Len(authorsRaw) |-> i]

----------------------------------------------------------------------------
(* setYear and updateAll *)

\* A setYear that takes the requested year as it is.
Clamp_None(year) == year

\* if (year < yearMinAll) year = yearMinAll; if (year > yearMaxAll) ...
Clamp(year) ==
    IF year < yearMinAll THEN yearMinAll
    ELSE IF year > yearMaxAll THEN yearMaxAll
    ELSE year

\* setYear(year, animate), called with filteredAuthors = filtered,
\* mainMode = mode and showSankey = sankey already assigned.
SetYear(year, filtered, mode, sankey) ==
    /\ currentYear' = Clamp(year)
    /\ nodes' = UpdateNodes(nodes, filtered, currentYear', mode)
    /\ clusterCenterMap' = ClusterCenters(filtered, currentYear', mode)
    /\ clusterKeys' = MapKeys(clusterCenterMap')
    /\ phantomData' = computePhantomsForYear(nodes', currentYear', mode, clusterCenterMap')
    \* updatePhantoms draws the lines; updateSankey then empties phantomLayer
    /\ phantomLines' = IF sankey THEN <<>> ELSE JoinedLines(phantomData', showPhantoms)
    /\ sankeyGraph' = IF sankey THEN updateSankey(filtered, currentYear', mode)
                      ELSE sankeyGraph
    /\ groupMetric' = GroupMetricText(filtered, currentYear', mode, sankey)
    /\ ranSetYear' = TRUE

\* An updateAll that also rewinds the slider to the first year.
UpdateAll_Rewind(filtered, mode, sankey) ==
    SetYear(yearMinAll, filtered, mode, sankey)

\* updateAll(forceRestart), with the same convention.
UpdateAll(filtered, mode, sankey) ==
    IF sankey
    THEN /\ sankeyGraph' = updateSankey(filtered, currentYear, mode)
         /\ phantomLines' = <<>>
         /\ groupMetric' = GroupMetricText(filtered, currentYear, mode, TRUE)
         /\ ranSetYear' = FALSE
         /\ UNCHANGED <<currentYear, nodes, clusterCenterMap, clusterKeys, phantomData>>
    ELSE SetYear(currentYear, filtered, mode, FALSE)

----------------------------------------------------------------------------
(* The handlers *)

\* vizToggleBtn click
VizToggle ==
    /\ page = "rendered"
    /\ showSankey' = ~showSankey
    /\ UpdateAll(filteredAuthors, mainMode, ~showSankey)
    /\ lastOp' = "viz"
    /\ UNCHANGED <<dataVars, pageVars, filteredAuthors, mainMode, autoplay,
                   autoplayInterval, runningIntervals, showPhantoms,
                   filterInputs, q>>

\* entireBtn / yearBtn click
ModeClick(mode) ==
    /\ page = "rendered"
    /\ mainMode' = mode
    /\ UpdateAll(filteredAuthors, mode, showSankey)
    /\ lastOp' = "mode"
    /\ UNCHANGED <<dataVars, pageVars, filteredAuthors, showSankey, autoplay,
                   autoplayInterval, runningIntervals, showPhantoms,
                   filterInputs, q>>

\* A play button that, toggled off, drops its reference to the interval
\* without stopping it.
PlayClick_NoStop ==
    /\ page = "rendered"
    /\ autoplay' = ~autoplay
    /\ IF autoplay'
       THEN IF ~autoplayInterval
            THEN /\ autoplayInterval' = TRUE
                 /\ runningIntervals' = runningIntervals + 1
            ELSE UNCHANGED <<autoplayInterval, runningIntervals>>
       ELSE /\ autoplayInterval' = FALSE
            /\ UNCHANGED runningIntervals
    /\ lastOp' = "play"
    /\ ranSetYear' = FALSE
    /\ UNCHANGED <<dataVars, pageVars, filteredAuthors, mainMode, currentYear,
                   showSankey, showPhantoms, clusterKeys, clusterCenterMap, nodes,
                   phantomData, phantomLines, sankeyGraph, groupMetric,
                   filterInputs, q>>

\* playBtn click; d3.interval starts a timer, stop() ends it
PlayClick ==
    /\ page = "rendered"
    /\ autoplay' = ~autoplay
    /\ IF autoplay'
       THEN IF ~autoplayInterval
            THEN /\ autoplayInterval' = TRUE
                 /\ runningIntervals' = runningIntervals + 1
            ELSE UNCHANGED <<autoplayInterval, runningIntervals>>
       ELSE IF autoplayInterval
            THEN /\ autoplayInterval' = FALSE
                 /\ runningIntervals' = runningIntervals - 1
            ELSE UNCHANGED <<autoplayInterval, runningIntervals>>
    /\ lastOp' = "play"
    /\ ranSetYear' = FALSE
    /\ UNCHANGED <<dataVars, pageVars, filteredAuthors, mainMode, currentYear,
                   showSankey, showPhantoms, clusterKeys, clusterCenterMap, nodes,
                   phantomData, phantomLines, sankeyGraph, groupMetric,
                   filterInputs, q>>

\* A callback that steps forward and never wraps.
AutoplayTick_NoWrap ==
    /\ page = "rendered"
    /\ runningIntervals > 0
    /\ SetYear(currentYear + 1, filteredAuthors, mainMode, showSankey)
    /\ lastOp' = "tick"
    /\ UNCHANGED <<dataVars, pageVars, filteredAuthors, mainMode, showSankey,
                   autoplay, autoplayInterval, runningIntervals, showPhantoms,
                   filterInputs, q>>

\* the d3.interval callback
AutoplayTick ==
    /\ page = "rendered"
    /\ runningIntervals > 0
    /\ LET nextYear == IF currentYear + 1 > yearMaxAll THEN yearMinAll
                       ELSE currentYear + 1
       IN SetYear(nextYear, filteredAuthors, mainMode, showSankey)
    /\ lastOp' = "tick"
    /\ UNCHANGED <<dataVars, pageVars, filteredAuthors, mainMode, showSankey, autoplay,
                   autoplayInterval, runningIntervals, showPhantoms, filterInputs, q>>

\* the slider's drag handler; x is the pointer position in year units, which
\* the handler clamps to the slider's range before rounding.
SliderDrag(x) ==
    /\ page = "rendered"
    /\ LET px == IF x < yearMinAll THEN yearMinAll
                 ELSE IF x > yearMaxAll THEN yearMaxAll ELSE x
       IN SetYear(px, filteredAuthors, mainMode, showSankey)
    /\ lastOp' = "drag"
    /\ UNCHANGED <<dataVars, pageVars, filteredAuthors, mainMode, showSankey, autoplay,
                   autoplayInterval, runningIntervals, showPhantoms, filterInputs, q>>

\* phantomToggle click: updatePhantoms(); updateClustersAndLabels()
PhantomToggle ==
    /\ page = "rendered"
    /\ showPhantoms' = ~showPhantoms
    /\ phantomData' = computePhantomsForYear(nodes, currentYear, mainMode, clusterCenterMap)
    /\ phantomLines' = JoinedLines(phantomData', ~showPhantoms)
    /\ lastOp' = "phantom"
    /\ ranSetYear' = FALSE
    /\ UNCHANGED <<dataVars, pageVars, filteredAuthors, mainMode, currentYear, showSankey,
                   autoplay, autoplayInterval, runningIntervals, clusterKeys, clusterCenterMap, nodes,
                   sankeyGraph, groupMetric, filterInputs, q>>

\* An Apply that filters the author list itself, in place.
applyFilters_InPlace(in) ==
    /\ page = "rendered"
    /\ filterInputs' = in
    /\ authorsRaw' = [k \in 1..Len(FilterAuthors(in)) |-> authorsRaw[FilterAuthors(in)[k]]]
    /\ filteredAuthors' = FilterAuthors(in)
    /\ SetYear(currentYear, filteredAuthors', mainMode, showSankey)
    /\ lastOp' = "apply"
    /\ UNCHANGED <<yearMinAll, yearMaxAll, pageVars, mainMode, showSankey, autoplay,
                   autoplayInterval, runningIntervals, showPhantoms, q>>

\* Apply click, with the filter panel holding the values in
applyFilters(in) ==
    /\ page = "rendered"
    /\ filterInputs' = in
    /\ filteredAuthors' = FilterAuthors(in)
    /\ SetYear(currentYear, filteredAuthors', mainMode, showSankey)
    /\ lastOp' = "apply"
    /\ UNCHANGED <<dataVars, pageVars, mainMode, showSankey, autoplay,
                   autoplayInterval, runningIntervals, showPhantoms, q>>

\* Reset click
resetFilters ==
    /\ page = "rendered"
    /\ filterInputs' = [filterInputs EXCEPT
                           !.nameFilter = <<>>, !.surnameFilter = <<>>,
                           !.instFilter = <<>>, !.hindex_val = <<>>,
                           !.i10_val = <<>>, !.works_val = <<>>, !.cited_val = <<>>]
    /\ filteredAuthors' = AllAuthors
    /\ UpdateAll(filteredAuthors', mainMode, showSankey)
    /\ lastOp' = "reset"
    /\ UNCHANGED <<dataVars, pageVars, mainMode, showSankey, autoplay,
                   autoplayInterval, runningIntervals, showPhantoms, q>>

\* A step of the force simulation: it moves the nodes.
Ticked ==
    /\ page = "rendered"
    /\ \E n \in 1..Len(nodes) : nodes[n].pos = "spawned"
    /\ nodes' = [n \in 1..Len(nodes) |-> [nodes[n] EXCEPT !.pos = "settled"]]
    /\ lastOp' = "simulation"
    /\ ranSetYear' = FALSE
    /\ UNCHANGED <<dataVars, pageVars, filteredAuthors, mainMode, currentYear,
                   showSankey, autoplay, autoplayInterval, runningIntervals,
                   showPhantoms, clusterKeys, clusterCenterMap, phantomData,
                   phantomLines, sankeyGraph, groupMetric, filterInputs, q>>

\* window "beforeunload": if (autoplayInterval) autoplayInterval.stop()
Unload ==
    /\ page = "rendered"
    /\ page' = "unloaded"
    /\ runningIntervals' = IF autoplayInterval THEN runningIntervals - 1
                           ELSE runningIntervals
    /\ lastOp' = "unload"
    /\ ranSetYear' = FALSE
    /\ UNCHANGED <<dataVars, thrown, filteredAuthors, mainMode, currentYear,
                   showSankey, autoplay, autoplayInterval, showPhantoms,
                   clusterKeys, clusterCenterMap, nodes, phantomData,
                   phantomLines, sankeyGraph, groupMetric, filterInputs, q>>

\* window "beforeunload" of js/sankey.js, whose player is the same code:
\* clearAutoplay(), a name the page defines nowhere, so the call raises a
\* ReferenceError and stops nothing.
UnloadSankeyJs ==
    /\ page = "rendered"
    /\ page' = "unloaded"
    /\ thrown' = "ReferenceError"
    /\ lastOp' = "unload"
    /\ ranSetYear' = FALSE
    /\ UNCHANGED <<dataVars, filteredAuthors, mainMode, currentYear, showSankey,
                   autoplay, autoplayInterval, runningIntervals, showPhantoms,
                   clusterKeys, clusterCenterMap, nodes, phantomData,
                   phantomLines, sankeyGraph, groupMetric, filterInputs, q>>

\* setYear(year, animate) called with any year; lastOp keeps on which side of
\* the range the requested year was.
CallSetYear(year) ==
    /\ page = "rendered"
    /\ SetYear(year, filteredAuthors, mainMode, showSankey)
    /\ lastOp' = IF year < yearMinAll THEN "setYearBelow"
                 ELSE IF year > yearMaxAll THEN "setYearAbove"
                 ELSE "setYear"
    /\ UNCHANGED <<dataVars, pageVars, filteredAuthors, mainMode, showSankey, autoplay,
                   autoplayInterval, runningIntervals, showPhantoms, filterInputs, q>>

----------------------------------------------------------------------------
(* The queries, as the tooltip and the side panel make them *)

QueryAuthor(i, year, mode) ==
    /\ page = "rendered"
    /\ q' = [op |-> "author", author |-> i, year |-> year, mode |-> mode,
             counts |-> countsFor(authorsRaw[i], year, mode),
             main |-> mainSubfieldFor(authorsRaw[i], year, mode),
             active |-> isActiveBy(authorsRaw[i], year, mode),
             inter |-> interdisciplinarity(authorsRaw[i], year, mode)]
    /\ UNCHANGED <<dataVars, pageVars, uiVars>>

QueryGroup(pop, year, mode) ==
    /\ page = "rendered"
    /\ q' = [op |-> "group", pop |-> pop, year |-> year, mode |-> mode,
             value |-> groupInterdisciplinarity(
                           [i \in 1..Len(pop) |-> authorsRaw[pop[i]]],
                           year, mode, "subfield")]
    /\ UNCHANGED <<dataVars, pageVars, uiVars>>

\* countsForFields(author, year, mode)
QueryFields(i, year, mode) ==
    /\ page = "rendered"
    /\ q' = [op |-> "fields", author |-> i, year |-> year, mode |-> mode,
             value |-> countsForFields(authorsRaw[i], year, mode)]
    /\ UNCHANGED <<dataVars, pageVars, uiVars>>

\* groupInterdisciplinarity(authors, year, mode, 'external')
QueryExternal(pop, year, mode) ==
    /\ page = "rendered"
    /\ q' = [op |-> "external", pop |-> pop, year |-> year, mode |-> mode,
             value |-> groupInterdisciplinarity(
                           [i \in 1..Len(pop) |-> authorsRaw[pop[i]]],
                           year, mode, "external")]
    /\ UNCHANGED <<dataVars, pageVars, uiVars>>

----------------------------------------------------------------------------
(* Initial state: the dataset is loaded and rendered once *)

InitWith(rawArray) ==
    /\ Len(rawArray) > 0
    /\ authorsRaw = LoadAuthors(rawArray)
    /\ thrown = "none"
    /\ runningIntervals = 0
    /\ q = [op |-> "none"]
    /\ lastOp = "load"
    /\ IF AllYearsSet(authorsRaw) = {}
       THEN \* "No years in authors.json": the callback returns before it
            \* declares the master state or registers a handler; the
            \* variables below do not exist and hold placeholders
            /\ page = "noYears"
            /\ yearMinAll = 0
            /\ yearMaxAll = 0
            /\ currentYear = 0
            /\ filteredAuthors = <<>>
            /\ mainMode = "entire"
            /\ showSankey = FALSE
            /\ autoplay = FALSE
            /\ autoplayInterval = FALSE
            /\ showPhantoms = TRUE
            /\ filterInputs = EmptyInputs
            /\ sankeyGraph = EmptyGraph
            /\ nodes = <<>>
            /\ clusterCenterMap = <<>>
            /\ clusterKeys = <<>>
            /\ phantomData = <<>>
            /\ phantomLines = <<>>
            /\ groupMetric = [label |-> "none", tenths |-> 0]
            /\ ranSetYear = FALSE
       ELSE /\ page = "rendered"
            /\ yearMinAll = SetMin(AllYearsSet(authorsRaw))
            /\ yearMaxAll = SetMax(AllYearsSet(authorsRaw))
            /\ filteredAuthors = AllAuthors
            /\ mainMode = "entire"
            /\ currentYear = yearMinAll
            /\ showSankey = FALSE
            /\ autoplay = FALSE
            /\ autoplayInterval = FALSE
            /\ showPhantoms = TRUE
            /\ filterInputs = EmptyInputs
            /\ sankeyGraph = EmptyGraph
            \* setYear(currentYear, false)
            /\ nodes = UpdateNodes(<<>>, filteredAuthors, currentYear, mainMode)
            /\ clusterCenterMap = ClusterCenters(filteredAuthors, currentYear, mainMode)
            /\ clusterKeys = MapKeys(clusterCenterMap)
            /\ phantomData = computePhantomsForYear(nodes, currentYear, mainMode,
                                                    clusterCenterMap)
            /\ phantomLines = JoinedLines(phantomData, showPhantoms)
            /\ groupMetric = GroupMetricText(filteredAuthors, currentYear, mainMode,
                                             showSankey)
            /\ ranSetYear = TRUE

----------------------------------------------------------------------------
(* Inputs *)

AI == <<"A","I">>
Software == <<"S","o","f","t","w","a","r","e">>
Vision == <<"V","i","s","i","o","n">>
Hardware == <<"H","a","r","d","w","a","r","e"," ","a","n","d"," ","A","r","c","h","i","t","e","c","t","u","r","e">>
CS == <<"C","S">>

PairKey(subfield, field) == subfield \o Delimiter \o field

RawAuthor(nome, cognome, inst, h, i10, works, cited, subfields, fields) ==
    [Nome |-> nome, Cognome |-> cognome, Institution |-> inst,
     HIndex |-> h, I10Index |-> i10, WorksCount |-> works, CitedByCount |-> cited,
     Yearly_Subfields |-> subfields, Yearly_Fields |-> fields]

\* An author of which only the yearly subfield table matters.
Plain(table) == RawAuthor(<<>>, <<>>, <<>>, <<>>, <<>>, <<>>, <<>>, <<table>>, <<>>)

GenNames == {AI, Vision}

\* The objects {name: count} of exactly n entries over the given names, in
\* every key order.
RECURSIVE ObjectsOfSize(_, _)
ObjectsOfSize(names, n) ==
    IF n = 0 THEN {<<>>}
    ELSE UNION {{<< <<nm, c>> >> \o o : c \in 0..MaxCount, o \in ObjectsOfSize(names \ {nm}, n - 1)} :
                nm \in names}

ObjectsUpTo(n) == UNION {ObjectsOfSize(GenNames, m) : m \in 0..n}

\* The yearly tables over the years y..MaxYear holding at most budget
\* counts; a JSON object lists its integer keys in ascending order.
RECURSIVE TablesFrom(_, _)
TablesFrom(y, budget) ==
    IF y > MaxYear THEN {<<>>}
    ELSE TablesFrom(y + 1, budget)
         \cup UNION {{<< <<StringOfNat(y), o>> >> \o t :
                        t \in TablesFrom(y + 1, budget - Len(o))} :
                     o \in ObjectsUpTo(budget)}

GenTables == TablesFrom(1, MaxEntries)

\* The second author of the generated two-author datasets.
Partners ==
    {Plain(<<>>),
     Plain(<< <<StringOfNat(1), << <<Vision, 2>> >> >> >>),
     Plain(<< <<StringOfNat(1), << <<AI, 1>> >> >>,
              <<StringOfNat(2), << <<Vision, 1>>, <<AI, 0>> >> >> >>)}

\* The spec's examples: one author with 2020 {AI: 3} and 2021 {AI: 2,
\* Software: 5}; two authors with 10 in one subfield each; a table with a gap
\* and a key that is not a year.
ExampleDatasets ==
    {<<Plain(<< <<StringOfNat(2020), << <<AI, 3>> >> >>,
                <<StringOfNat(2021), << <<AI, 2>>, <<Software, 5>> >> >> >>)>>,
     <<Plain(<< <<StringOfNat(2020), << <<Software, 10>> >> >> >>),
       Plain(<< <<StringOfNat(2020), << <<Hardware, 10>> >> >> >>)>>,
     <<Plain(<< <<StringOfNat(1), << <<Software, 1>>, <<AI, 1>> >> >>,
                <<StringOfNat(3), << <<AI, 2>>, <<Vision, 3>> >> >>,
                <<<<"n","a">>, << <<AI, 7>> >> >> >>),
       RawAuthor(<<>>, <<>>, <<>>, <<>>, <<>>, <<>>, <<>>, <<>>, <<>>)>>}

\* An author with both tables.
Tabled(subfields, fields) ==
    RawAuthor(<<>>, <<>>, <<>>, <<>>, <<>>, <<>>, <<>>, <<subfields>>, <<fields>>)

\* Records in which a year maps to null or to the empty object, in either
\* table, alone and next to an ordinary author.
NullAuthors ==
    {Tabled(<< <<StringOfNat(1), Null>>,
               <<StringOfNat(2), << <<AI, 1>> >> >> >>,
            << <<StringOfNat(1), << <<PairKey(AI, CS), 1>> >> >>,
               <<StringOfNat(2), Null>> >>),
     Tabled(<< <<StringOfNat(1), << <<AI, 1>>, <<Vision, 2>> >> >>,
               <<StringOfNat(2), <<>> >> >>,
            << <<StringOfNat(1), Null>>,
               <<StringOfNat(2), << <<PairKey(AI, CS), 2>>,
                                    <<PairKey(Vision, CS), 1>> >> >> >>),
     Tabled(<< <<StringOfNat(1), <<>> >> >>,
            << <<StringOfNat(1), <<>> >>,
               <<StringOfNat(2), << <<PairKey(AI, CS), 1>> >> >> >>)}

NullDatasets ==
    {<<a>> : a \in NullAuthors}
    \cup {<<p, a>> : p \in Partners, a \in NullAuthors}

\* A record with no yearly table at all, alone, twice, and after an ordinary
\* author.
Bare == RawAuthor(<<>>, <<>>, <<>>, <<>>, <<>>, <<>>, <<>>, <<>>, <<>>)

BareDatasets == {<<Bare>>, <<Bare, Bare>>} \cup {<<p, Bare>> : p \in Partners}

\* Records with a field-pair table: two years and a gap, and the same with a
\* key that is not a year, alone and next to an ordinary author.
PairAuthors ==
    {Tabled(<< <<StringOfNat(1), << <<AI, 1>> >> >> >>,
            << <<StringOfNat(1), << <<PairKey(AI, CS), 1>>,
                                    <<PairKey(Vision, CS), 0>> >> >>,
               <<StringOfNat(3), << <<PairKey(Vision, CS), 2>>,
                                    <<PairKey(AI, CS), 1>> >> >> >>),
     Tabled(<< <<StringOfNat(1), << <<AI, 1>> >> >> >>,
            << <<StringOfNat(1), << <<PairKey(AI, CS), 1>> >> >>,
               <<StringOfNat(2), << <<PairKey(Vision, CS), 2>> >> >>,
               <<<<"n","a">>, << <<PairKey(AI, CS), 7>> >> >> >>)}

PairDatasets ==
    {<<a>> : a \in PairAuthors}
    \cup {<<p, a>> : p \in Partners, a \in PairAuthors}

QueryDatasets ==
    {<<Plain(t)>> : t \in GenTables}
    \cup {<<Plain(t), p>> : t \in GenTables, p \in Partners}
    \cup ExampleDatasets
    \cup NullDatasets
    \cup BareDatasets
    \cup PairDatasets

----------------------------------------------------------------------------
(* The specification of the queries: a loaded dataset and one query of it *)

QueryYears == (yearMinAll - 1)..(yearMaxAll + 1)
Modes == {"year", "entire"}

\* The populations a group query is made over: one author, or all of them.
Populations ==
    {<<i>> : i \in 1..Len(authorsRaw)} \cup {AllAuthors}

InitQuery == \E rawArray \in QueryDatasets : InitWith(rawArray)

\* The queries are pure: they leave the program's state alone, so one query
\* from each loaded state covers every answer the program can give.
NextQuery ==
    \/ /\ q.op = "none"
       /\ \E i \in 1..Len(authorsRaw), year \in QueryYears, mode \in Modes :
             QueryAuthor(i, year, mode)
    \/ /\ q.op = "none"
       /\ \E pop \in Populations, year \in QueryYears, mode \in Modes :
             QueryGroup(pop, year, mode)
    \/ /\ q.op = "none"
       /\ \E i \in 1..Len(authorsRaw), year \in QueryYears, mode \in Modes :
             QueryFields(i, year, mode)
    \/ /\ q.op = "none"
       /\ \E pop \in Populations, year \in QueryYears, mode \in Modes :
             QueryExternal(pop, year, mode)

SpecQuery == InitQuery /\ [][NextQuery]_vars

----------------------------------------------------------------------------
(* The specification of the page: a loaded dataset and the user's actions *)

Ada == <<"A","d","a">>
AdaLower == <<"a","d","a">>
Adams == <<"A","d","a","m","s">>
Bo == <<"B","o">>
Diaz == <<"D","i","a","z">>
MIT == <<"M","I","T">>
Eth == <<"e","t","h">>
\* Three records: a tie, zero counts, missing metrics, a missing fields
\* table, pair keys without the delimiter.
Pool ==
    <<RawAuthor(Ada, Adams, MIT, <<3>>, <<1>>, <<5>>, <<9>>,
        << << <<StringOfNat(1), << <<Software, 1>>, <<AI, 1>> >> >>,
              <<StringOfNat(2), << <<AI, 1>>, <<Vision, 1>> >> >> >> >>,
        << << <<StringOfNat(1), << <<PairKey(AI, CS), 5>>, <<AI, 1>> >> >>,
              <<StringOfNat(2), << <<PairKey(Software, CS), 3>>,
                                   <<PairKey(AI, CS), 0>> >> >> >> >>),
      RawAuthor(Bo, Diaz, Eth, <<2>>, <<>>, <<>>, <<>>,
        << << <<StringOfNat(2), << <<Vision, 2>>, <<AI, 0>> >> >> >> >>,
        <<>>),
      RawAuthor(AdaLower, Bo, <<>>, <<>>, <<0>>, <<1>>, <<0>>,
        << << <<StringOfNat(1), << <<Software, 2>>, <<AI, 2>> >> >>,
              <<StringOfNat(2), << <<AI, 0>> >> >> >> >>,
        << << <<StringOfNat(1), << <<PairKey(AI, CS), 2>> >> >>,
              <<StringOfNat(2), << <<AI, 4>> >> >> >> >>)>>

\* The datasets: up to MaxAuthors records of the pool, in the pool's order.
Datasets ==
    {[i \in 1..Len(ix) |-> Pool[ix[i]]] :
        ix \in {jx \in UNION {[1..n -> 1..Len(Pool)] : n \in 1..MaxAuthors} :
                   \A i, j \in 1..Len(jx) : i < j => jx[i] < jx[j]}}

\* What the user may have typed in the filter panel when pressing Apply.
FilterChoices ==
    {EmptyInputs,
     [EmptyInputs EXCEPT !.nameFilter = <<" ","A","D"," ">>],
     [EmptyInputs EXCEPT !.surnameFilter = <<"b","o">>],
     [EmptyInputs EXCEPT !.hindex_op = "=", !.hindex_val = <<" ","2">>],
     [EmptyInputs EXCEPT !.instFilter = <<"m","i","t">>,
                         !.i10_op = "<=", !.i10_val = <<"1">>],
     [EmptyInputs EXCEPT !.works_val = <<"x">>]}

Init == \E rawArray \in Datasets : InitWith(rawArray)

Next ==
    \/ VizToggle
    \/ \E mode \in Modes : ModeClick(mode)
    \/ PlayClick
    \/ AutoplayTick
    \/ \E x \in (yearMinAll - 1)..(yearMaxAll + 1) : SliderDrag(x)
    \/ PhantomToggle
    \/ \E in \in FilterChoices : applyFilters(in)
    \/ resetFilters

Spec == Init /\ [][Next]_vars

\* The page, with setYear also called with years on either side of the range.
RequestedYears == (yearMinAll - 1)..(yearMaxAll + 1)

NextSetYear ==
    \/ Next
    \/ \E year \in RequestedYears : CallSetYear(year)

SpecSetYear == Init /\ [][NextSetYear]_vars

\* The page left to play: the user starts the player and afterwards touches
\* neither the player nor the slider.
NextAutoplay ==
    \/ ~autoplay /\ PlayClick
    \/ AutoplayTick
    \/ VizToggle
    \/ \E mode \in Modes : ModeClick(mode)
    \/ PhantomToggle

\* ENABLED <<AutoplayTick>>_vars: an interval is running, and its callback
\* changes something (it changes nothing when it has just run on a range of
\* one year).
TickEnabled ==
    /\ page = "rendered"
    /\ runningIntervals > 0
    /\ lastOp # "tick" \/ yearMinAll < yearMaxAll

\* d3.interval runs its callback every second for as long as the interval is
\* running: WF_vars(AutoplayTick), written out with TickEnabled.
TickFairness == []<>(~TickEnabled) \/ []<><<AutoplayTick>>_vars

SpecAutoplay == Init /\ [][NextAutoplay]_vars /\ TickFairness

\* The page with its player, until it is unloaded; both variants of the
\* unload listener.
NextUnload ==
    \/ PlayClick
    \/ AutoplayTick
    \/ VizToggle
    \/ \E mode \in Modes : ModeClick(mode)
    \/ Unload
    \/ UnloadSankeyJs

SpecUnload == Init /\ [][NextUnload]_vars

\* The filter panel alone: one numeric criterion at a time, with each
\* operator and with a number, a padded number, a text that is no number and
\* blanks as the value, next to the choices of the page.
MetricOps == {">=", "=", "<="}
MetricValues == {<<"0">>, <<" ", "2">>, <<"x">>, <<" ">>}

NumericChoices ==
    UNION {{[EmptyInputs EXCEPT !.hindex_op = op, !.hindex_val = v],
            [EmptyInputs EXCEPT !.i10_op = op, !.i10_val = v],
            [EmptyInputs EXCEPT !.works_op = op, !.works_val = v],
            [EmptyInputs EXCEPT !.cited_op = op, !.cited_val = v]} :
           op \in MetricOps, v \in MetricValues}

NextFilter ==
    \/ \E in \in NumericChoices \cup FilterChoices : applyFilters(in)
    \/ resetFilters

SpecFilter == Init /\ [][NextFilter]_vars

\* The page with its force simulation running: the handlers that change the
\* year, the mode, the population and the view, and the simulation's steps.
NextLayout ==
    \/ \E x \in yearMinAll..yearMaxAll : SliderDrag(x)
    \/ \E mode \in Modes : ModeClick(mode)
    \/ \E in \in FilterChoices : applyFilters(in)
    \/ resetFilters
    \/ VizToggle
    \/ Ticked

SpecLayout == Init /\ [][NextLayout]_vars

\* The page over the records in which a year maps to null or to the empty
\* object: the handlers that change the year, the mode, the population and
\* the view.
InitMetric == \E rawArray \in NullDatasets : InitWith(rawArray)

NextMetric ==
    \/ \E x \in yearMinAll..yearMaxAll : SliderDrag(x)
    \/ \E mode \in Modes : ModeClick(mode)
    \/ \E in \in FilterChoices : applyFilters(in)
    \/ resetFilters
    \/ VizToggle

SpecMetric == InitMetric /\ [][NextMetric]_vars

----------------------------------------------------------------------------
(* Vocabulary of the properties *)

\* The sum of f[x] over the x of S
RECURSIVE SumFn(_, _)
SumFn(f, S) ==
    IF S = {} THEN 0
    ELSE LET x == CHOOSE x \in S : TRUE IN f[x] + SumFn(f, S \ {x})

\* The count of category c in a mapping, 0 when absent
CountIn(counts, c) == ObjGetOr(counts, c, 0)

\* The categories an author's yearly subfield table names
CategoriesOf(author) ==
    UNION {ObjKeys(OrEmpty(author.yearly[j][2])) : j \in 1..Len(author.yearly)}

\* Equality of two fractions with positive denominators
FracEq(a, b) == a.den > 0 /\ b.den > 0 /\ a.num * b.den = b.num * a.den

\* The entries of a mapping with a strictly positive count
PositiveEntries(counts) == {e \in EntrySet(counts) : e[2] > 0}

\* 1 - max/sum of a total function over the categories where it is positive
ConcentrationOf(total, cats) ==
    LET pos == {c \in cats : total[c] > 0}
        sum == SumFn(total, pos)
        max == SetMax({total[c] : c \in pos})
    IN IF pos = {} THEN Zero ELSE Frac(sum - max, sum)

QueriedAuthor == authorsRaw[q.author]

----------------------------------------------------------------------------
(* Properties of the classification queries (under SpecQuery) *)

\* C1: for every author, category C and query year Y, the 'entire' count of
\* C at Y is the sum of the 'year' counts of C over the years <= Y of the
\* author's yearly subfield table; with no such year the result is the empty
\* mapping, and past the author's last year it is the last year's snapshot.
C1_EntireIsPrefixSum ==
    (q.op = "author" /\ q.mode = "entire") =>
        LET a == QueriedAuthor
            years == {y \in YearsOf(a) : y <= q.year}
        IN /\ \A c \in CategoriesOf(a) \cup ObjKeys(q.counts) :
                 CountIn(q.counts, c) =
                     SumFn([y \in years |-> CountIn(countsFor(a, y, "year"), c)], years)
           /\ years = {} => q.counts = <<>>
           /\ (YearsOf(a) # {} /\ q.year > SetMax(YearsOf(a))) =>
                 q.counts = countsFor(a, SetMax(YearsOf(a)), "entire")

\* C1 witness: an 'entire' query whose result adds up positive counts of one
\* category from two different years.
C1_Witness ==
    /\ q.op = "author"
    /\ q.mode = "entire"
    /\ \E c \in CategoriesOf(QueriedAuthor) :
          /\ Cardinality({y \in YearsOf(QueriedAuthor) :
                             /\ y <= q.year
                             /\ CountIn(countsFor(QueriedAuthor, y, "year"), c) > 0}) >= 2
          /\ CountIn(q.counts, c) >= 2

\* The categories of a mapping that hold its maximum count
MaxCategories(counts) ==
    {e[1] : e \in {x \in EntrySet(counts) :
                      \A y \in EntrySet(counts) : y[2] <= x[2]}}

LexSmallest(S) == CHOOSE x \in S : \A y \in S : y = x \/ StrLess(x, y)

\* C2 as stated: on every non-empty mapping the result is a category of the
\* mapping holding the maximum count, the lexicographically smallest such.
C2_AsStated ==
    (q.op = "author" /\ q.counts # <<>>) =>
        q.main = LexSmallest(MaxCategories(q.counts))

\* C2: when the mapping holds a strictly positive count, mainSubfieldFor
\* returns a category holding the maximum count and, among several, the
\* lexicographically smallest, whatever the order of the entries.
C2_MainIsLexSmallestMax ==
    (q.op = "author" /\ PositiveEntries(q.counts) # {}) =>
        /\ ObjHas(q.counts, q.main)
        /\ q.main = LexSmallest(MaxCategories(q.counts))

\* C2 witness: two categories tie on a positive maximum and the one stored
\* first is not the one returned.
C2_Witness ==
    /\ q.op = "author"
    /\ Len(q.counts) >= 2
    /\ q.counts[1][2] > 0
    /\ Cardinality(MaxCategories(q.counts)) >= 2
    /\ q.counts[1][1] \in MaxCategories(q.counts)
    /\ q.main # q.counts[1][1]

\* C3: a mapping with no strictly positive count yields "Unknown".
C3_UnknownWhenNoPositive ==
    (q.op = "author" /\ PositiveEntries(q.counts) = {}) => q.main = Unknown

\* C4: interdisciplinarity is exactly 0 on an empty or all-zero mapping and
\* when exactly one category is positive; otherwise it is 1 - max/sum over
\* the positive counts, with 0 <= sum - max < sum.
C4_Interdisciplinarity ==
    (q.op = "author") =>
        LET pos == PositiveEntries(q.counts)
            total == [c \in ObjKeys(q.counts) |-> ObjGet(q.counts, c)]
        IN /\ q.inter.den > 0
           /\ Cardinality(pos) <= 1 => q.inter.num = 0
           /\ Cardinality(pos) >= 2 =>
                 /\ FracEq(q.inter, ConcentrationOf(total, ObjKeys(q.counts)))
                 /\ 0 <= q.inter.num
                 /\ q.inter.num < q.inter.den

\* C4 witness: a query over a mapping with a zero and two positive counts.
C4_Witness ==
    /\ q.op = "author"
    /\ Cardinality(PositiveEntries(q.counts)) >= 2
    /\ q.inter.num > 0

\* C5: the group metric of a population of one author is that author's
\* interdisciplinarity at the same year and mode.
C5_GroupOfOne ==
    (q.op = "group" /\ Len(q.pop) = 1) =>
        FracEq(q.value, interdisciplinarity(authorsRaw[q.pop[1]], q.year, q.mode))

\* C5 witness: a group query over one author with a non-zero score.
C5_Witness ==
    /\ q.op = "group"
    /\ Len(q.pop) = 1
    /\ q.value.num > 0

\* The categories the authors of a population name at a year and mode
PopCategories(pop, year, mode) ==
    UNION {ObjKeys(countsFor(authorsRaw[pop[i]], year, mode)) : i \in 1..Len(pop)}

\* The total of category c over a population
PopTotal(pop, year, mode, c) ==
    SumFn([i \in 1..Len(pop) |-> CountIn(countsFor(authorsRaw[pop[i]], year, mode), c)],
          1..Len(pop))

\* C6: the group metric is 1 - max/sum applied once to the per-category
\* totals over the population (0 when no total is positive).
C6_GroupSumsFirst ==
    (q.op = "group") =>
        LET cats == PopCategories(q.pop, q.year, q.mode)
            total == [c \in cats |-> PopTotal(q.pop, q.year, q.mode, c)]
        IN FracEq(q.value, ConcentrationOf(total, cats))

\* C6 witness: the two-author example, 10 in one subfield each: the group
\* value is 10/20 although each author's own score is 0.
C6_Witness ==
    /\ q.op = "group"
    /\ Len(q.pop) = 2
    /\ q.value = Frac(10, 20)
    /\ \A i \in 1..2 : interdisciplinarity(authorsRaw[q.pop[i]], q.year, q.mode).num = 0

----------------------------------------------------------------------------
(* Properties of the page (under Spec) *)

KeySet(m) == {m[i][1] : i \in 1..Len(m)}
SeqSet(seq) == {seq[i] : i \in 1..Len(seq)}

\* The subfields in which some author of the filtered population has a
\* strictly positive count at the current year and mode
PositiveSubfields ==
    UNION {{e[1] : e \in PositiveEntries(
                      countsFor(authorsRaw[filteredAuthors[i]], currentYear, mainMode))} :
           i \in 1..Len(filteredAuthors)}

\* C7: after every setYear the cluster-centre map is non-empty, and when no
\* author of the filtered population has a strictly positive count at the
\* current year and mode its key set is exactly {"Unknown"}; the same holds of
\* the map the earlier variant of the page computes.
C7_ClusterMapNeverEmpty ==
    ranSetYear =>
        LET earlier == updateClustersAndLabels(filteredAuthors, currentYear, mainMode)
        IN /\ clusterCenterMap # <<>>
           /\ clusterKeys # <<>>
           /\ earlier # <<>>
           /\ PositiveSubfields = {} =>
                 /\ KeySet(clusterCenterMap) = {Unknown}
                 /\ KeySet(earlier) = {Unknown}

\* C7 witness: a filter that nobody passes has just been applied, and the map
\* holds the one key "Unknown".
C7_Witness ==
    /\ ranSetYear
    /\ lastOp = "apply"
    /\ filteredAuthors = <<>>
    /\ clusterKeys = <<Unknown>>

\* C8: every edge of phantomData names a key of the current clusterCenterMap
\* and carries that key's coordinates.
C8_PhantomsReferenceCurrentCenters ==
    \A i \in 1..Len(phantomData) :
        /\ ObjHas(clusterCenterMap, phantomData[i].subfield)
        /\ phantomData[i].target = ObjGet(clusterCenterMap, phantomData[i].subfield)

\* C8 witness: the phantoms have just been toggled while the map is older
\* than the mode: a node has a positive secondary subfield that is no key of
\* the map, and phantomData holds edges none the less.
C8_Witness ==
    /\ lastOp = "phantom"
    /\ phantomData # <<>>
    /\ \E i \in 1..Len(nodes) :
          LET a == authorsRaw[nodes[i].author] IN
          \E e \in PositiveEntries(countsFor(a, currentYear, mainMode)) :
              /\ e[1] # mainSubfieldFor(a, currentYear, mainMode)
              /\ ~ObjHas(clusterCenterMap, e[1])

\* val op num as the filter panel means it: false on a missing metric and on
\* a bound that is not a number
Compares(op, val, num) ==
    /\ ~val.nan
    /\ ~num.nan
    /\ op = ">=" => val.v >= num.v
    /\ op = "<=" => val.v <= num.v
    /\ op = "=" => val.v = num.v

TextCriterion(text, typed) ==
    trim(typed) = <<>> \/ includes(toLowerCase(text), toLowerCase(trim(typed)))

NumberCriterion(op, val, typed) ==
    trim(typed) = <<>> \/ Compares(op, val, NumberOfStr(trim(typed)))

\* An author satisfies every criterion of the panel that is not empty
Matches(a, in) ==
    /\ TextCriterion(a.name, in.nameFilter)
    /\ TextCriterion(a.family_name, in.surnameFilter)
    /\ TextCriterion(a.institution, in.instFilter)
    /\ NumberCriterion(in.hindex_op, a.hindex, in.hindex_val)
    /\ NumberCriterion(in.i10_op, a.i10index, in.i10_val)
    /\ NumberCriterion(in.works_op, a.works_count, in.works_val)
    /\ NumberCriterion(in.cited_op, a.cited_by_count, in.cited_val)

\* The years the current mode reads
FlowYears == IF mainMode = "year" THEN {currentYear} ELSE 0..currentYear

\* The count of pair key k of one author over the years the mode reads
PairCount(a, k) ==
    LET js == {j \in 1..Len(a.yearly_fields) :
                  /\ ~NumberOfStr(a.yearly_fields[j][1]).nan
                  /\ NumberOfStr(a.yearly_fields[j][1]).v \in FlowYears}
    IN SumFn([j \in js |-> CountIn(OrEmpty(a.yearly_fields[j][2]), k)], js)

\* The total of pair key k over the filtered population
FlowTotal(k) ==
    SumFn([i \in 1..Len(filteredAuthors) |->
              PairCount(authorsRaw[filteredAuthors[i]], k)],
          1..Len(filteredAuthors))

AllPairKeys ==
    UNION {UNION {ObjKeys(OrEmpty(authorsRaw[filteredAuthors[i]].yearly_fields[j][2])) :
                     j \in 1..Len(authorsRaw[filteredAuthors[i]].yearly_fields)} :
           i \in 1..Len(filteredAuthors)}

\* The group metric over the filtered population, in tenths of a percent
PopulationMetric ==
    IF showSankey
    THEN ToFixed1Percent(ConcentrationOf([k \in AllPairKeys |-> FlowTotal(k)], AllPairKeys))
    ELSE LET cats == PopCategories(filteredAuthors, currentYear, mainMode) IN
         ToFixed1Percent(ConcentrationOf(
             [c \in cats |-> PopTotal(filteredAuthors, currentYear, mainMode, c)], cats))

\* C9: after applyFilters the population is exactly the authors of the
\* dataset that satisfy every non-empty criterion, in dataset order, whatever
\* the population was before; the nodes, the visible subfields and the group
\* metric of that update range over exactly those authors; after
\* resetFilters the population is the full dataset.
C9_FiltersReplacePopulation ==
    /\ lastOp = "apply" =>
          /\ filteredAuthors =
                SelectSeq(AllAuthors, LAMBDA i : Matches(authorsRaw[i], filterInputs))
          /\ Len(nodes) = Len(filteredAuthors)
          /\ {nodes[i].author : i \in 1..Len(nodes)} = SeqSet(filteredAuthors)
          /\ SeqSet(clusterKeys) =
                (IF PositiveSubfields = {} THEN {Unknown} ELSE PositiveSubfields)
          /\ groupMetric.tenths = PopulationMetric
    /\ lastOp = "reset" =>
          /\ filteredAuthors = AllAuthors
          /\ groupMetric.tenths = PopulationMetric

\* C9 witness: a filter has just been applied that lets in an author the
\* previous filter kept out: the node of the author kept all along comes first.
C9_Witness ==
    /\ lastOp = "apply"
    /\ Len(filteredAuthors) = 2
    /\ Len(nodes) = 2
    /\ nodes[1].author = filteredAuthors[2]

\* The place of the first delimiter in a key, 0 when there is none
FirstDelimiter(k) ==
    LET at == {i \in 1..Len(k) : i + 2 <= Len(k) /\ SubSeq(k, i, i + 2) = Delimiter}
    IN IF at = {} THEN 0 ELSE SetMin(at)

SubfieldOfKey(k) == SubSeq(k, 1, FirstDelimiter(k) - 1)

FieldOfKey(k) ==
    LET rest == SubSeq(k, FirstDelimiter(k) + 3, Len(k))
    IN IF FirstDelimiter(rest) = 0 THEN rest
       ELSE SubSeq(rest, 1, FirstDelimiter(rest) - 1)

\* The pair keys that give a link: a positive total and both parts
EmittedKeys == {k \in AllPairKeys : FlowTotal(k) > 0 /\ FirstDelimiter(k) > 0}

\* C10: in the Flow view the graph holds one link per pair key
\* "<subfield>---<field>" of positive total, weighted by the sum of the pair's
\* counts over the filtered authors at the current year and mode; its nodes are
\* exactly the subfield and field names of the links; with no such key the
\* graph is empty.
C10_FlowGraph ==
    showSankey =>
        LET links == sankeyGraph.links
            names == sankeyGraph.nodes
        IN /\ Len(links) = Cardinality(EmittedKeys)
           /\ SeqSet(links) =
                 {[source |-> SubfieldOfKey(k), target |-> FieldOfKey(k),
                   value |-> FlowTotal(k)] : k \in EmittedKeys}
           /\ SeqSet(names) =
                 {links[i].source : i \in 1..Len(links)}
                 \cup {links[i].target : i \in 1..Len(links)}
           /\ Len(names) = Cardinality(SeqSet(names))
           /\ EmittedKeys = {} => sankeyGraph = EmptyGraph

\* C10 witness: the totals {"AI---CS": 5, "Software---CS": 3} and a key
\* without delimiter give the nodes {AI, Software, CS} and two links of
\* weight 5 and 3.
C10_Witness ==
    /\ showSankey
    /\ SeqSet(sankeyGraph.links) =
          {[source |-> AI, target |-> CS, value |-> 5],
           [source |-> Software, target |-> CS, value |-> 3]}
    /\ SeqSet(sankeyGraph.nodes) = {AI, Software, CS}
    /\ \E k \in AllPairKeys : FlowTotal(k) > 0 /\ FirstDelimiter(k) = 0

----------------------------------------------------------------------------
(* C11 *)

\* C11: in every reachable state the displayed year lies between the smallest
\* and the largest year of the dataset, whatever the user did (drags, ticks,
\* mode, filter and view operations), and a setYear called with a year below
\* (above) the range leaves currentYear at the lower (upper) bound.
C11_YearInRange ==
    /\ yearMinAll = SetMin(AllYearsSet(authorsRaw))
    /\ yearMaxAll = SetMax(AllYearsSet(authorsRaw))
    /\ yearMinAll <= currentYear
    /\ currentYear <= yearMaxAll
    /\ lastOp = "setYearBelow" => currentYear = yearMinAll
    /\ lastOp = "setYearAbove" => currentYear = yearMaxAll

\* setYear was called with a year above a range of several years.
C11_Witness ==
    /\ lastOp = "setYearAbove"
    /\ yearMinAll < yearMaxAll
    /\ currentYear = yearMaxAll
    /\ showSankey

----------------------------------------------------------------------------
(* C12 *)

\* C12: a filter apply, a filter reset, a mode toggle, a view toggle and a
\* phantom toggle leave currentYear as it was; a mode, view or phantom toggle
\* leaves the filtered population as it was; a year change (drag or tick)
\* leaves the mode, the view and the filtered population as they were.
C12_FrameEffects ==
    [][/\ lastOp' \in {"apply", "reset", "mode", "viz", "phantom"}
           => currentYear' = currentYear
       /\ lastOp' \in {"mode", "viz", "phantom"}
           => filteredAuthors' = filteredAuthors
       /\ lastOp' \in {"tick", "drag"}
           => /\ mainMode' = mainMode
              /\ showSankey' = showSankey
              /\ filteredAuthors' = filteredAuthors]_vars

\* A filter was applied in Flow view, per-year mode, away from the first
\* year, and it removed an author.
C12_Witness ==
    /\ lastOp = "apply"
    /\ currentYear # yearMinAll
    /\ Len(filteredAuthors) < Len(authorsRaw)
    /\ showSankey
    /\ mainMode = "year"

----------------------------------------------------------------------------
(* C13 *)

\* The years that occur in the datasets of the page.
PoolYears == UNION {AllYearsSet(LoadAuthors(d)) : d \in Datasets}

\* C13: each tick of the player sets currentYear to currentYear + 1 when it is
\* below yearMaxAll and to yearMinAll when it is yearMaxAll; so while the
\* player stays on and its ticks fire, every year of the range is shown by a
\* tick again and again.
C13_AutoplayCycles ==
    /\ [][lastOp' = "tick" =>
            currentYear' = IF currentYear < yearMaxAll THEN currentYear + 1
                           ELSE yearMinAll]_vars
    /\ \A y \in PoolYears :
          (autoplay /\ yearMinAll <= y /\ y <= yearMaxAll)
              ~> (lastOp = "tick" /\ currentYear = y)

\* A tick wrapped from the last year of a range of several years to the first.
C13_Witness ==
    /\ lastOp = "tick"
    /\ autoplay
    /\ yearMinAll < yearMaxAll
    /\ currentYear = yearMinAll

----------------------------------------------------------------------------
(* C14 *)

\* C14: at most one interval is running at any time, an interval is running
\* (and autoplayInterval refers to it) exactly when the autoplay flag is on,
\* and while the flag is off no step is a tick.
C14_OneInterval ==
    /\ [](/\ runningIntervals <= 1
          /\ (runningIntervals = 1) <=> autoplay
          /\ autoplayInterval <=> autoplay)
    /\ [][~autoplay => lastOp' # "tick"]_vars

\* The player was on, ticked away from the first year, and was toggled off.
C14_Witness ==
    /\ lastOp = "play"
    /\ ~autoplay
    /\ runningIntervals = 0
    /\ currentYear # yearMinAll

----------------------------------------------------------------------------
(* C15 *)

\* C15: once the page is unloaded no interval is running, and the unload
\* listener raised no error, whether or not the player was on.
C15_UnloadStopsPlayer ==
    page = "unloaded" => runningIntervals = 0 /\ thrown = "none"

----------------------------------------------------------------------------
(* C16 *)

\* C16: every query of every loaded record, the records with absent tables
\* and with null or empty year entries included, returns a value: none
\* raises an error, at any year and in either mode.
C16_QueriesNeverRaise ==
    q.op \in {"author", "group", "fields", "external"} =>
        /\ q.op = "author" => q.counts # TypeError
        /\ q.op = "fields" => q.value # TypeError
        /\ q.op \in {"group", "external"} => "raised" \notin DOMAIN q.value

----------------------------------------------------------------------------
(* C17 *)

\* C17: whatever the dataset, an author without yearly tables is in the
\* author list of a rendered page, has a node while it is in the filtered
\* population, and that node and every query of the author give an inactive
\* author of subfield "Unknown", at every year and in either mode.
C17_BareAuthorsAreInert ==
    \A i \in 1..Len(authorsRaw) :
        authorsRaw[i].yearly = <<>> =>
            /\ page = "rendered"
            /\ \A k \in 1..Len(filteredAuthors) :
                  filteredAuthors[k] = i =>
                      \E n \in 1..Len(nodes) :
                          /\ nodes[n].author = i
                          /\ ~nodes[n].active
                          /\ nodes[n].subfield = Unknown
            /\ (q.op = "author" /\ q.author = i) =>
                  /\ q.main = Unknown
                  /\ ~q.active
                  /\ q.counts = <<>>

----------------------------------------------------------------------------
(* C18 *)

\* C18: after every user operation (drag, tick, mode toggle, filter apply,
\* filter reset, view toggle), in Cluster and in Flow view, the node list
\* holds one node for each author of the filtered population and no other
\* node, and each node's subfield and active flag are those the queries give
\* for its author at the current year and mode.
C18_NodesTrackPopulation ==
    lastOp \in {"drag", "tick", "mode", "apply", "reset", "viz"} =>
        /\ Len(nodes) = Len(filteredAuthors)
        /\ \A k \in 1..Len(filteredAuthors) :
              \E n \in 1..Len(nodes) : nodes[n].author = filteredAuthors[k]
        /\ \A n \in 1..Len(nodes) :
              /\ \E k \in 1..Len(filteredAuthors) :
                    filteredAuthors[k] = nodes[n].author
              /\ nodes[n].subfield =
                    mainSubfieldFor(authorsRaw[nodes[n].author], currentYear, mainMode)
              /\ nodes[n].active =
                    isActiveBy(authorsRaw[nodes[n].author], currentYear, mainMode)

----------------------------------------------------------------------------
(* C19 *)

\* C19: no handler changes the normalized author list or an author's cache:
\* every step leaves authorsRaw as it was, and in every state each author's
\* four cache tables are the ones the load built from the author's yearly
\* tables, so a query of (author, year, mode) gives the same result whenever
\* it is made.
C19_DataIsReadOnly ==
    /\ [][authorsRaw' = authorsRaw]_vars
    /\ [](\A i \in 1..Len(authorsRaw) :
             authorsRaw[i]._cache = BuildCache(authorsRaw[i]))

\* Two authors with data, after a filter that removed one and a reset, in
\* Flow view, per-year mode, at the last of several years.
C19_Witness ==
    /\ lastOp = "reset"
    /\ Len(authorsRaw) = 2
    /\ \A i \in 1..Len(authorsRaw) : DOMAIN authorsRaw[i]._cache.entire # {}
    /\ showSankey
    /\ mainMode = "year"
    /\ yearMinAll < yearMaxAll
    /\ currentYear = yearMaxAll

----------------------------------------------------------------------------
(* C20 *)

\* The edges the current nodes call for: node, category, count, for every
\* active node and every category of a positive count other than the node's
\* dominant subfield.
ExpectedEdges ==
    UNION {{<<nodes[n].id, e[1], e[2]>> :
               e \in {x \in EntrySet(countsFor(authorsRaw[nodes[n].author],
                                               currentYear, mainMode)) :
                         /\ x[2] > 0
                         /\ x[1] # mainSubfieldFor(authorsRaw[nodes[n].author],
                                                   currentYear, mainMode)}} :
           n \in {m \in 1..Len(nodes) :
                     isActiveBy(authorsRaw[nodes[m].author], currentYear, mainMode)}}

\* C20: right after setYear the phantom list holds exactly one edge for each
\* pair of an active node and a category in which the node's author has a
\* positive count and which is not the node's dominant subfield, the edge
\* carries that count and points at the category's cluster centre, and the
\* list holds nothing else.
C20_PhantomEdges ==
    ranSetYear =>
        /\ {<<phantomData[k].parent, phantomData[k].subfield, phantomData[k].count>> :
                k \in 1..Len(phantomData)} = ExpectedEdges
        /\ Len(phantomData) = Cardinality(ExpectedEdges)
        /\ \A k \in 1..Len(phantomData) :
              /\ ObjHas(clusterCenterMap, phantomData[k].subfield)
              /\ phantomData[k].target =
                    ObjGet(clusterCenterMap, phantomData[k].subfield)

\* A setYear, run by a handler, left an edge while one node is inactive and
\* another has a dominant subfield and an edge.
C20_Witness ==
    /\ ranSetYear
    /\ lastOp \in {"drag", "tick", "apply", "mode"}
    /\ Len(phantomData) >= 1
    /\ \E n \in 1..Len(nodes) : ~nodes[n].active
    /\ \E n \in 1..Len(nodes) :
          /\ nodes[n].active
          /\ nodes[n].subfield # Unknown
          /\ \E k \in 1..Len(phantomData) : phantomData[k].parent = nodes[n].id

----------------------------------------------------------------------------
(* C21 *)

\* The pair keys of positive total that lack the delimiter
MalformedKeys == {k \in AllPairKeys : FlowTotal(k) > 0 /\ FirstDelimiter(k) = 0}

\* C21: in the Flow view a pair key without the delimiter "---" gives no link
\* and no node and raises no error, and every key with the delimiter and a
\* positive total still has its link; when the keys of positive total all
\* lack the delimiter nothing is left drawn.
C21_MalformedKeysDropped ==
    showSankey =>
        LET links == sankeyGraph.links
            names == sankeyGraph.nodes
        IN /\ thrown = "none"
           /\ \A k \in EmittedKeys :
                 \E i \in 1..Len(links) :
                     links[i] = [source |-> SubfieldOfKey(k),
                                 target |-> FieldOfKey(k),
                                 value |-> FlowTotal(k)]
           /\ \A i \in 1..Len(links) :
                 \E k \in EmittedKeys :
                     /\ links[i].source = SubfieldOfKey(k)
                     /\ links[i].target = FieldOfKey(k)
           /\ \A i \in 1..Len(names) :
                 \E k \in EmittedKeys : names[i] \in {SubfieldOfKey(k), FieldOfKey(k)}
           /\ (MalformedKeys # {} /\ EmittedKeys = {}) => sankeyGraph = EmptyGraph

\* A drag in the Flow view, per-year mode, reached a year at which the only
\* key of positive total has no delimiter, and nothing is drawn.
C21_Witness ==
    /\ showSankey
    /\ lastOp = "drag"
    /\ mainMode = "year"
    /\ MalformedKeys # {}
    /\ EmittedKeys = {}
    /\ sankeyGraph = EmptyGraph

----------------------------------------------------------------------------
(* C22 *)

\* C22: after setYear the keys of the cluster-centre map are exactly the
\* subfields in which some author of the filtered population has a strictly
\* positive count at the current year and mode (when there is one), they are
\* in ascending name order, and the key of rank i (from 0) among N holds slot
\* i of N of the circle: the map is determined by the set of its keys.
C22_VisibleSubfieldSlots ==
    ranSetYear =>
        LET N == Len(clusterCenterMap) IN
        /\ PositiveSubfields # {} => KeySet(clusterCenterMap) = PositiveSubfields
        /\ clusterKeys = [j \in 1..N |-> clusterCenterMap[j][1]]
        /\ \A j \in 1..(N - 1) : StrLess(clusterKeys[j], clusterKeys[j + 1])
        /\ \A j \in 1..N :
              /\ clusterCenterMap[j][2].den > 0
              /\ clusterCenterMap[j][2].num * N = (j - 1) * clusterCenterMap[j][2].den

\* A setYear found a visible subfield while an author of the population has
\* a subfield of count zero, which is not visible.
C22_Witness ==
    /\ ranSetYear
    /\ lastOp \in {"drag", "tick", "apply", "mode"}
    /\ PositiveSubfields # {}
    /\ \E i \in 1..Len(filteredAuthors) :
          \E e \in EntrySet(countsFor(authorsRaw[filteredAuthors[i]], currentYear, mainMode)) :
              e[2] = 0 /\ e[1] \notin SeqSet(clusterKeys)

----------------------------------------------------------------------------
(* C23 *)

\* C23: for every author, year and mode, countsForFields gives the mapping of
\* the precomputed tables: in 'year' mode sankeyYear at the year, in 'entire'
\* mode sankeyEntire at the greatest cached year not after the query year,
\* and the empty mapping when there is no such year.
C23_FieldsMatchSnapshots ==
    q.op = "fields" =>
        /\ q.value # TypeError
        /\ EntrySet(q.value) = EntrySet(SankeyPairsOf(QueriedAuthor, q.year, q.mode))

----------------------------------------------------------------------------
(* C24 *)

\* The pair keys with a positive total over the filtered population
PositiveKeys == {k \in AllPairKeys : FlowTotal(k) > 0}

\* The links the current population, year and mode call for
CurrentLinks ==
    {[source |-> SubfieldOfKey(k), target |-> FieldOfKey(k), value |-> FlowTotal(k)] :
        k \in EmittedKeys}

\* C24: in the Flow view, after a drag, a tick, a mode toggle, a filter apply,
\* a filter reset and the switch into the view, what is drawn is the
\* aggregation of the filtered population at the current year and mode: its
\* links, each once, and the names of their ends; when no pair has a positive
\* total nothing is drawn, whatever was drawn before.
C24_FlowGraphFollowsState ==
    (showSankey /\ lastOp \in {"drag", "tick", "mode", "apply", "reset", "viz"}) =>
        /\ SeqSet(sankeyGraph.links) = CurrentLinks
        /\ Len(sankeyGraph.links) = Cardinality(CurrentLinks)
        /\ SeqSet(sankeyGraph.nodes) =
              {l.source : l \in CurrentLinks} \cup {l.target : l \in CurrentLinks}
        /\ PositiveKeys = {} =>
              /\ sankeyGraph.links = <<>>
              /\ sankeyGraph.nodes = <<>>

\* In the Flow view a filter has just left a population without any pair,
\* while an author it removed has pairs of positive count at this year.
C24_Witness ==
    /\ showSankey
    /\ lastOp = "apply"
    /\ filteredAuthors # <<>>
    /\ PositiveKeys = {}
    /\ sankeyGraph = EmptyGraph
    /\ \E i \in 1..Len(authorsRaw) :
          \E e \in EntrySet(SankeyPairsOf(authorsRaw[i], currentYear, mainMode)) :
              e[2] > 0 /\ FirstDelimiter(e[1]) > 0

----------------------------------------------------------------------------
(* C25 *)

\* The edges the filtered population calls for: author, category, count, for
\* every active author and every category of a positive count other than the
\* author's dominant subfield.
PopulationEdges ==
    UNION {{<<authorsRaw[filteredAuthors[i]].id, e[1], e[2]>> :
               e \in {x \in EntrySet(countsFor(authorsRaw[filteredAuthors[i]],
                                               currentYear, mainMode)) :
                         /\ x[2] > 0
                         /\ x[1] # mainSubfieldFor(authorsRaw[filteredAuthors[i]],
                                                   currentYear, mainMode)}} :
           i \in {j \in 1..Len(filteredAuthors) :
                     isActiveBy(authorsRaw[filteredAuthors[j]], currentYear, mainMode)}}

EdgesOf(data) ==
    {<<data[k].parent, data[k].subfield, data[k].count>> : k \in 1..Len(data)}

\* C25: while the phantoms are toggled off no phantom edge is displayed, and
\* after each drag, tick, mode toggle and filter operation phantomData still
\* holds the edges of the current population, year and mode; toggled on
\* again, the edges displayed are exactly those; and a toggle leaves the
\* year, the mode, the population, the nodes and the cluster centres alone.
C25_PhantomToggle ==
    /\ [](/\ ~showPhantoms => phantomLines = <<>>
          /\ (~showPhantoms /\ lastOp \in {"drag", "tick", "mode", "apply", "reset"}) =>
                EdgesOf(phantomData) = PopulationEdges
          /\ (showPhantoms /\ lastOp = "phantom") =>
                /\ phantomLines = phantomData
                /\ EdgesOf(phantomLines) = PopulationEdges)
    /\ [][lastOp' = "phantom" =>
             UNCHANGED <<currentYear, mainMode, filteredAuthors, nodes,
                         clusterCenterMap, clusterKeys>>]_vars

----------------------------------------------------------------------------
(* C26 *)

\* The numeric criteria of the panel: operator, typed value, the author's metric
MetricCriteria(a, in) ==
    {<<in.hindex_op, in.hindex_val, a.hindex>>,
     <<in.i10_op, in.i10_val, a.i10index>>,
     <<in.works_op, in.works_val, a.works_count>>,
     <<in.cited_op, in.cited_val, a.cited_by_count>>}

\* The typed value is empty or blank
Blank(typed) == \A i \in 1..Len(typed) : typed[i] = " "

\* C26: after Apply, an author whose metric is missing is not in the
\* population when the criterion on that metric is not empty, whatever the
\* operator and the value; and an author is left out only because of a
\* criterion that is not empty and that the author does not meet.
C26_MissingMetricExcluded ==
    lastOp = "apply" =>
        \A i \in 1..Len(authorsRaw) :
            /\ (\E c \in MetricCriteria(authorsRaw[i], filterInputs) :
                    ~Blank(c[2]) /\ c[3].nan)
                  => i \notin SeqSet(filteredAuthors)
            /\ i \notin SeqSet(filteredAuthors) =>
                  \/ \E c \in MetricCriteria(authorsRaw[i], filterInputs) :
                        ~Blank(c[2]) /\ ~Compares(c[1], c[3], NumberOfStr(trim(c[2])))
                  \/ ~TextCriterion(authorsRaw[i].name, filterInputs.nameFilter)
                  \/ ~TextCriterion(authorsRaw[i].family_name, filterInputs.surnameFilter)
                  \/ ~TextCriterion(authorsRaw[i].institution, filterInputs.instFilter)

\* "Cited by >= 0" has just been applied: the author without a citation count
\* is out, the author with 0 citations is in.
C26_Witness ==
    /\ lastOp = "apply"
    /\ filterInputs.cited_op = ">="
    /\ filterInputs.cited_val = <<"0">>
    /\ \E i \in 1..Len(authorsRaw) :
          authorsRaw[i].cited_by_count.nan /\ i \notin SeqSet(filteredAuthors)
    /\ \E i \in 1..Len(authorsRaw) :
          /\ authorsRaw[i].cited_by_count = Num(0)
          /\ i \in SeqSet(filteredAuthors)

----------------------------------------------------------------------------
(* C27 *)

\* The authors that have a node
NodeAuthors(ns) == {ns[n].author : n \in 1..Len(ns)}

\* C27: across a setYear run by a year change (a drag), a mode toggle or a
\* filter apply, the node of an author who is in the population before and after
\* stays, with the position it had; an author who enters the population gets
\* a node at a spawn point; an author who leaves it has no node any more.
C27_NodesKeepPosition ==
    [][(ranSetYear' /\ lastOp' \in {"drag", "mode", "apply"}) =>
          /\ \A n \in 1..Len(nodes) :
                (/\ nodes[n].author \in SeqSet(filteredAuthors)
                 /\ nodes[n].author \in SeqSet(filteredAuthors')) =>
                    \E m \in 1..Len(nodes') :
                        /\ nodes'[m].id = nodes[n].id
                        /\ nodes'[m].pos = nodes[n].pos
          /\ \A i \in SeqSet(filteredAuthors') \ SeqSet(filteredAuthors) :
                /\ i \notin NodeAuthors(nodes)
                /\ \E m \in 1..Len(nodes') :
                      nodes'[m].author = i /\ nodes'[m].pos = "spawned"
          /\ \A i \in SeqSet(filteredAuthors) \ SeqSet(filteredAuthors') :
                i \notin NodeAuthors(nodes')]_vars

\* A filter has just been applied that let an author in next to one who
\* stayed: the node that stayed is where the simulation had moved it, the
\* new node is at its spawn point.
C27_Witness ==
    /\ lastOp = "apply"
    /\ ranSetYear
    /\ \E n \in 1..Len(nodes) : nodes[n].pos = "settled"
    /\ \E n \in 1..Len(nodes) : nodes[n].pos = "spawned"

----------------------------------------------------------------------------
(* C28 *)

\* C28: in every reachable state, every node whose active flag is set has a
\* subfield that is a key of the cluster-centre map, so that the forces pull
\* it to a cluster and not to the fallback centre.
C28_ActiveNodesHaveCluster ==
    \A n \in 1..Len(nodes) :
        nodes[n].active => ObjHas(clusterCenterMap, nodes[n].subfield)

\* The mode was toggled in the Flow view: a node still carries the active
\* flag of the other mode, in which its author has a positive count, and its
\* subfield is a key of the map.
C28_Witness ==
    /\ lastOp = "mode"
    /\ showSankey
    /\ \E n \in 1..Len(nodes) :
          /\ nodes[n].active
          /\ ~isActiveBy(authorsRaw[nodes[n].author], currentYear, mainMode)
          /\ ObjHas(clusterCenterMap, nodes[n].subfield)
          /\ nodes[n].subfield # Unknown

----------------------------------------------------------------------------
(* C29 *)

\* C29: after every drag, tick, mode toggle, filter apply, filter reset and
\* view toggle the group metric on display is the one of the filtered
\* population at the current year and mode: over the subfield counts, and
\* labelled "Inner", in the Cluster view; over the field-pair counts, and
\* labelled "Outer", in the Flow view.
C29_GroupMetricFollowsState ==
    lastOp \in {"drag", "tick", "mode", "apply", "reset", "viz"} =>
        /\ groupMetric.label = IF showSankey THEN "Outer Interdisciplinarity"
                               ELSE "Inner Interdisciplinarity"
        /\ groupMetric.tenths = PopulationMetric

----------------------------------------------------------------------------
(* C30 *)

\* C30: with counts that are not negative, the Entire-mode count of every
\* category at a year is at most its count at every later year, so an author
\* active at a year in Entire mode is active at every later year; and an
\* author active at a year in Year mode is active at that year in Entire
\* mode.
C30_EntireIsMonotone ==
    q.op = "author" =>
        /\ q.mode = "entire" =>
              \A later \in QueryYears :
                  later >= q.year =>
                      /\ \A c \in CategoriesOf(QueriedAuthor) :
                            CountIn(q.counts, c) <=
                                CountIn(countsFor(QueriedAuthor, later, "entire"), c)
                      /\ q.active => isActiveBy(QueriedAuthor, later, "entire")
        /\ (q.mode = "year" /\ q.active) =>
              isActiveBy(QueriedAuthor, q.year, "entire")

\* An author is active in Entire mode at a year before the last, and has no
\* positive count of its own at a later year.
C30_Witness ==
    /\ q.op = "author"
    /\ q.mode = "entire"
    /\ q.active
    /\ \E later \in QueryYears :
          /\ later > q.year
          /\ later <= yearMaxAll
          /\ ~isActiveBy(QueriedAuthor, later, "year")
          /\ isActiveBy(QueriedAuthor, later, "entire")

====
